---- MODULE Spec2Model ----
(***************************************************************************)
(* Model of skills/moltpad/tools/moltpad_cli.py: the structured-chapter   *)
(* validator (_validate_chapter_json), the markup renderer                *)
(* (_segments_to_markup), the chapter-add / contribute commands, and the  *)
(* book cache with the read and chapter-read commands.                    *)
(*                                                                         *)
(* Python strings are sequences of one-character strings.  A JSON value   *)
(* is a record [k, s]: k is the Python type json.loads produces           *)
(* ("NoneType", "bool", "int", "float", "str", "list", "dict") and s the  *)
(* characters of a str.  A key that is not in a dict is the value Absent. *)
(***************************************************************************)
EXTENDS Integers, Sequences, FiniteSets, TLC

VARIABLES
  cmd,            \* the command being run ("none": functions applied directly)
  pc,             \* position in the command
  doc,            \* chapter_data, the parsed stdin JSON
  raised,         \* _validate_chapter_json ended by an exception
  errors,         \* the list _validate_chapter_json returned
  content,        \* the markup _segments_to_markup returned
  renders,        \* number of _segments_to_markup invocations
  calls,          \* the _api requests issued so far
  can_publish,    \* rights.get("canPublishDirectly", False)
  can_contribute, \* rights.get("canContribute", False)
  order_index,    \* order_index of cmd_chapter_add
  existing,       \* the orderIndex values of the chapter list fetched
  ctx_saved,      \* lastChapterContext was written to state.json
  args,           \* book_id, --refresh and chapter_id of read, chapter-read
  cache,          \* the text of memory/books/<book id>.md, per book id
  cache_before,   \* cache as the command found it
  now,            \* datetime.now(timezone.utc), in seconds
  lookup,         \* how the chapter lookup of chapter-read ended
  stale_book,     \* stale_book of cmd_chapter_read, << >> for None
  stale_chapter_info, \* the title hint of cmd_chapter_read, or None
  book,           \* the book the command fetched, or None
  chapters,       \* the chapter list the command fetched
  chapter,        \* chapter of cmd_chapter_read, or None
  out,            \* what the command printed last
  retries,        \* retries of _api
  quiet,          \* quiet of _api
  attempt,        \* attempt, the loop variable of _api
  responses,      \* how each request of the _api call ended, in order
  result,         \* what the _api call returned
  check,          \* args.check of cmd_update
  local_v,        \* local_v of cmd_update
  remote_v,       \* remote_v of cmd_update
  disk,           \* the content of each file of the update set
  disk_before,    \* disk as the command found it
  bak,            \* the content of each file's .bak copy
  backups,        \* the keys of the backups dict
  updated         \* the files written by the download loop so far

docvars == <<doc, raised, errors, content, renders, can_publish,
             can_contribute, order_index, existing, ctx_saved>>

cachevars == <<args, cache, cache_before, now, lookup, stale_book,
               stale_chapter_info, book, chapters, chapter, out>>

apivars == <<retries, quiet, attempt, responses, result>>

updvars == <<check, local_v, remote_v, disk, disk_before, bak, backups,
             updated>>

vars == <<cmd, pc, calls, docvars, cachevars, apivars, updvars>>

(* ------------------------------ bounds -------------------------------- *)

MaxSegs == 2

MaxChapters == 2

MaxOrder == 2

MaxRetries == 2

(* ------------------------------ strings ------------------------------- *)

EmDash == "\\u2014"

IsSpace(c) == c \in {" ", "\n", "\t"}

UpperAlpha == <<"A","B","C","D","E","F","G","H","I","J","K","L","M",
                "N","O","P","Q","R","S","T","U","V","W","X","Y","Z">>

LowerAlpha == <<"a","b","c","d","e","f","g","h","i","j","k","l","m",
                "n","o","p","q","r","s","t","u","v","w","x","y","z">>

LowerCh(c) ==
  IF \E i \in 1..26 : UpperAlpha[i] = c
    THEN LowerAlpha[CHOOSE i \in 1..26 : UpperAlpha[i] = c]
    ELSE c

\* str.lower()
Lower(s) == [i \in 1..Len(s) |-> LowerCh(s[i])]

\* str.strip()
Strip(s) ==
  IF \A i \in 1..Len(s) : IsSpace(s[i])
    THEN << >>
    ELSE LET a == CHOOSE i \in 1..Len(s) :
                    ~IsSpace(s[i]) /\ \A j \in 1..(i-1) : IsSpace(s[j])
             b == CHOOSE i \in 1..Len(s) :
                    ~IsSpace(s[i]) /\ \A j \in (i+1)..Len(s) : IsSpace(s[j])
         IN  SubSeq(s, a, b)

\* str.startswith(p)
StartsWith(s, p) == Len(p) <= Len(s) /\ SubSeq(s, 1, Len(p)) = p

\* p in s
Contains(s, p) ==
  \E i \in 0..(Len(s) - Len(p)) : SubSeq(s, i + 1, i + Len(p)) = p

\* sep.join(parts)
RECURSIVE Join(_, _)
Join(parts, sep) ==
  IF parts = << >> THEN << >>
  ELSE IF Len(parts) = 1 THEN parts[1]
  ELSE parts[1] \o sep \o Join(Tail(parts), sep)

(* --------------------------- more str methods -------------------------- *)

\* s.find(p) + 1: the first position at which p occurs in s, 0 for none.
Find(s, p) ==
  IF Contains(s, p)
    THEN CHOOSE i \in 1..(Len(s) - Len(p) + 1) :
           /\ SubSeq(s, i, i + Len(p) - 1) = p
           /\ \A j \in 1..(i - 1) : SubSeq(s, j, j + Len(p) - 1) # p
    ELSE 0

\* s.split(sep)
RECURSIVE Split(_, _)
Split(s, sep) ==
  LET i == Find(s, sep)
  IN  IF i = 0 THEN <<s>>
      ELSE <<SubSeq(s, 1, i - 1)>>
           \o Split(SubSeq(s, i + Len(sep), Len(s)), sep)

\* s.split(sep, 1)
SplitOnce(s, sep) ==
  LET i == Find(s, sep)
  IN  IF i = 0 THEN <<s>>
      ELSE <<SubSeq(s, 1, i - 1), SubSeq(s, i + Len(sep), Len(s))>>

\* s.replace(old, new)
Replace(s, old, new) == Join(Split(s, old), new)

\* s.splitlines(), for text whose only line boundary is "\n": the lines
\* without their terminators, no empty line after a final "\n".
SplitLines(s) ==
  LET l == Split(s, <<"\n">>)
  IN  IF l[Len(l)] = << >> THEN SubSeq(l, 1, Len(l) - 1) ELSE l

\* s[:n]
Prefix(s, n) == SubSeq(s, 1, IF Len(s) < n THEN Len(s) ELSE n)

(* ------------------------------ timestamps ----------------------------- *)

\* An instant is a number of seconds.  The text of an instant stands for
\* its ISO-8601 form: the decimal digits of the instant, followed by the
\* zone designator "Z" or the offset "+00:00" when the text carries one.
DigitChars == <<"0","1","2","3","4","5","6","7","8","9">>

IsDigit(c) == \E i \in 1..10 : DigitChars[i] = c

DigitVal(c) == (CHOOSE i \in 1..10 : DigitChars[i] = c) - 1

RECURSIVE Digits(_)
Digits(n) ==
  IF n < 10 THEN <<DigitChars[n + 1]>>
  ELSE Digits(n \div 10) \o <<DigitChars[(n % 10) + 1]>>

RECURSIVE Number(_)
Number(s) ==
  IF s = << >> THEN 0
  ELSE 10 * Number(SubSeq(s, 1, Len(s) - 1)) + DigitVal(s[Len(s)])

UtcOffset == <<"+","0","0",":","0","0">>

\* datetime.now(timezone.utc).strftime("%Y-%m-%dT%H:%M:%SZ")
strftime(t) == Digits(t) \o <<"Z">>

\* datetime.fromisoformat(ts): ok is FALSE for a ValueError; aware tells
\* whether the parsed datetime carries a UTC offset.
fromisoformat(ts) ==
  LET aware == /\ Len(ts) > Len(UtcOffset)
               /\ SubSeq(ts, Len(ts) - Len(UtcOffset) + 1, Len(ts)) = UtcOffset
      body  == IF aware THEN SubSeq(ts, 1, Len(ts) - Len(UtcOffset)) ELSE ts
  IN  IF body # << >> /\ \A i \in 1..Len(body) : IsDigit(body[i])
        THEN [ok |-> TRUE, aware |-> aware, t |-> Number(body)]
        ELSE [ok |-> FALSE, aware |-> FALSE, t |-> 0]

\* timedelta.days: whole days of a difference of seconds, rounded down.
SecondsPerDay == 86400

Days(seconds) == seconds \div SecondsPerDay

(* ----------------------------- JSON values ---------------------------- *)

Absent == [k |-> "absent", s |-> << >>]
JNull  == [k |-> "NoneType", s |-> << >>]
JTrue  == [k |-> "bool", s |-> << >>]
JInt   == [k |-> "int", s |-> << >>]
JList  == [k |-> "list", s |-> << >>]
JDict  == [k |-> "dict", s |-> << >>]
JStr(s) == [k |-> "str", s |-> s]

\* d.get(key): a missing key reads as None.
Get(v) == IF v = Absent THEN JNull ELSE v

\* key in d
Has(v) == v # Absent

IsStr(v) == v.k = "str"

\* hash(v) succeeds: lists and dicts are unhashable.
Hashable(v) == v.k \notin {"list", "dict"}

\* bool(v) of a value read with .get(key, "")
Truthy(v) ==
  CASE v.k = "str"   -> v.s # << >>
    [] v.k = "absent" -> FALSE
    [] v.k = "NoneType" -> FALSE
    [] OTHER -> TRUE

(* ---------------------------- configuration --------------------------- *)

s_text        == <<"t","e","x","t">>
s_dialogue    == <<"d","i","a","l","o","g","u","e">>
s_monolog     == <<"m","o","n","o","l","o","g">>
s_whisper     == <<"w","h","i","s","p","e","r">>
s_shout       == <<"s","h","o","u","t">>
s_emphasis    == <<"e","m","p","h","a","s","i","s">>
s_center      == <<"c","e","n","t","e","r">>
s_right       == <<"r","i","g","h","t">>
s_scene_break == <<"s","c","e","n","e","_","b","r","e","a","k">>
s_heading     == <<"h","e","a","d","i","n","g">>
s_thought     == <<"t","h","o","u","g","h","t">>

VALID_SEGMENT_TYPES ==
  {s_text, s_dialogue, s_monolog, s_whisper, s_shout,
   s_emphasis, s_center, s_right, s_scene_break, s_heading}

NARRATIVE_TYPES == {s_dialogue, s_monolog, s_whisper, s_shout}

RAW_TAGS == <<s_thought, s_whisper, s_shout, s_emphasis, s_center, s_right>>

TAG_TO_TYPE(tag) == IF tag = s_thought THEN s_monolog ELSE tag

OpenTag(t)  == <<"[">> \o t \o <<"]">>
CloseTag(t) == <<"[", "/">> \o t \o <<"]">>

(* ------------------------------ violations ---------------------------- *)

\* One violation message: seg is the index in "segments[i]" (-1 when the
\* message carries no segment prefix), code identifies the message text,
\* ty and a are the values formatted into it, names the kinds it lists.
Err(seg, code, ty, a, names) ==
  [seg |-> seg, code |-> code, ty |-> ty, a |-> a, names |-> names]

(* --------------------------- _validate_chapter_json ------------------- *)

\* The raw-tag check: the first tag of _RAW_TAGS found in text.lower().
TagFound(text, t) ==
  Contains(Lower(text), OpenTag(t)) \/ Contains(Lower(text), CloseTag(t))

HasRawTag(text) == \E n \in 1..Len(RAW_TAGS) : TagFound(text, RAW_TAGS[n])

FirstRawTag(text) ==
  RAW_TAGS[CHOOSE n \in 1..Len(RAW_TAGS) :
             /\ TagFound(text, RAW_TAGS[n])
             /\ \A m \in 1..(n-1) : ~TagFound(text, RAW_TAGS[m])]

StartsWithDash(text) ==
  StartsWith(text, <<EmDash, " ">>) \/ StartsWith(text, <<"-", " ">>)

\* TextErrors with only the "text is None" test.
TextErrorsNoneOnly(i, stype, text) ==
  IF text = JNull
    THEN <<Err(i, "text_required", "", stype, {})>>
  ELSE << >>

TextErrors(i, stype, text) ==
  IF text = JNull
    THEN <<Err(i, "text_required", "", stype, {})>>
  ELSE IF ~IsStr(text) \/ Strip(text.s) = << >>
    THEN <<Err(i, "text_empty", "", << >>, {})>>
  ELSE << >>

\* NarrativeErrors with "not narr" in place of "not narr.strip()".
NarrativeErrorsNoStrip(i, stype, seg) ==
  IF ~Has(seg.narrative) THEN << >>
  ELSE IF stype \notin NARRATIVE_TYPES
    THEN <<Err(i, "narrative_unsupported", "", stype, NARRATIVE_TYPES)>>
  ELSE IF ~IsStr(seg.narrative) \/ seg.narrative.s = << >>
    THEN <<Err(i, "narrative_empty", "", << >>, {})>>
  ELSE << >>

NarrativeErrors(i, stype, seg) ==
  IF ~Has(seg.narrative) THEN << >>
  ELSE IF stype \notin NARRATIVE_TYPES
    THEN <<Err(i, "narrative_unsupported", "", stype, NARRATIVE_TYPES)>>
  ELSE IF ~IsStr(seg.narrative) \/ Strip(seg.narrative.s) = << >>
    THEN <<Err(i, "narrative_empty", "", << >>, {})>>
  ELSE << >>

RawTagErrors(i, text) ==
  IF HasRawTag(text)
    THEN <<Err(i, "raw_tag", "", FirstRawTag(text),
               {TAG_TO_TYPE(FirstRawTag(text))})>>
    ELSE << >>

DashErrors(i, stype, text) ==
  IF stype = s_text /\ StartsWithDash(text)
    THEN <<Err(i, "dialogue_dash", "",
               IF StartsWith(text, <<EmDash>>) THEN <<EmDash>> ELSE <<"-">>,
               {s_dialogue})>>
    ELSE << >>

SceneBreakErrors(i, seg) ==
  (IF Has(seg.text)
     THEN <<Err(i, "scene_break_text", "", << >>, {})>> ELSE << >>)
  \o
  (IF Has(seg.narrative)
     THEN <<Err(i, "scene_break_narrative", "", << >>, {})>> ELSE << >>)

\* The membership test "stype not in VALID_SEGMENT_TYPES" hashes stype.
TypeTestRaises(seg) ==
  seg.k = "dict" /\ Get(seg.type) # JNull /\ ~Hashable(seg.type)

\* One iteration of the loop over segments: the violations it appends.
\* (Evaluated only when TypeTestRaises(seg) is false.)
SegErrors(i, seg) ==
  IF seg.k # "dict"
    THEN <<Err(i, "seg_not_object", "", << >>, {})>>
  ELSE IF Get(seg.type) = JNull
    THEN <<Err(i, "type_missing", "", << >>, {})>>
  ELSE IF ~(IsStr(seg.type) /\ seg.type.s \in VALID_SEGMENT_TYPES)
    THEN <<Err(i, "type_unknown", seg.type.k, seg.type.s,
               VALID_SEGMENT_TYPES)>>
  ELSE IF seg.type.s = s_scene_break
    THEN SceneBreakErrors(i, seg)
  ELSE LET stype == seg.type.s
           text  == Get(seg.text)
       IN  TextErrors(i, stype, text)
           \o NarrativeErrors(i, stype, seg)
           \o (IF IsStr(text) /\ text.s # << >>
                 THEN RawTagErrors(i, text.s) \o DashErrors(i, stype, text.s)
                 ELSE << >>)

TitleErrors(data) ==
  IF Get(data.title) = JNull
    THEN <<Err(-1, "title_missing", "", << >>, {})>>
  ELSE IF ~IsStr(data.title) \/ Strip(data.title.s) = << >>
    THEN <<Err(-1, "title_empty", "", << >>, {})>>
  ELSE << >>

\* Title duplication: first segment is a heading matching the title.
TitleDupErrors(data) ==
  IF /\ data.items # << >>
     /\ data.items[1].k = "dict"
     /\ Get(data.items[1].type) = JStr(s_heading)
     /\ IsStr(Get(data.items[1].text))
     /\ IsStr(Get(data.title))
     /\ Strip(data.title.s) # << >>
     /\ LET first_text  == Lower(Strip(data.items[1].text.s))
            title_lower == Lower(Strip(data.title.s))
        IN  first_text = title_lower \/ Contains(first_text, title_lower)
    THEN <<Err(0, "title_duplicate", "", << >>, {})>>
    ELSE << >>

\* The loop "for i, seg in enumerate(segments)": acc is the errors list so
\* far, n the 1-based position; an exception leaves the loop at once.
RECURSIVE SegLoop(_, _, _)
SegLoop(items, n, acc) ==
  IF n > Len(items) THEN [raised |-> FALSE, errors |-> acc]
  ELSE IF TypeTestRaises(items[n]) THEN [raised |-> TRUE, errors |-> acc]
  ELSE SegLoop(items, n + 1, acc \o SegErrors(n - 1, items[n]))

\* _validate_chapter_json(data): raised = TRUE when it ends by an exception
\* (then no list is returned), otherwise errors is the returned list.
_validate_chapter_json(data) ==
  IF data.k # "dict"
    THEN [raised |-> FALSE,
          errors |-> <<Err(-1, "not_object", data.k, << >>, {})>>]
  ELSE IF Get(data.segments) = JNull
    THEN [raised |-> FALSE,
          errors |-> TitleErrors(data)
                     \o <<Err(-1, "segments_missing", "", << >>, {})>>]
  ELSE IF data.segments.k # "list"
    THEN [raised |-> FALSE,
          errors |-> TitleErrors(data)
                     \o <<Err(-1, "segments_not_array", "", << >>, {})>>]
  ELSE IF data.items = << >>
    THEN [raised |-> FALSE,
          errors |-> TitleErrors(data)
                     \o <<Err(-1, "segments_empty", "", << >>, {})>>]
  ELSE LET r == SegLoop(data.items, 1, TitleErrors(data))
       IN  IF r.raised THEN r
           ELSE [raised |-> FALSE,
                 errors |-> r.errors \o TitleDupErrors(data)]

(* ---------------------------- _segments_to_markup --------------------- *)

Wrap(tag, text) == OpenTag(tag) \o text \o CloseTag(tag)

\* seg.get(key, ""): the value, or "" for a missing key.  Formatting a
\* str into an f-string yields its characters.
GetOrEmpty(v) == IF v = Absent THEN JStr(<< >>) ELSE v

\* Fragment with the narrative of a dialogue appended after a single space.
FragmentPlainNarrative(seg) ==
  LET stype     == seg.type.s
      text      == GetOrEmpty(seg.text).s
      narrative == GetOrEmpty(seg.narrative)
      tail(sep) == IF Truthy(narrative) THEN sep \o narrative.s ELSE << >>
  IN  CASE stype = s_text        -> <<text>>
        [] stype = s_dialogue    -> <<<<EmDash, " ">> \o text \o tail(<<" ">>)>>
        [] stype = s_monolog     -> <<Wrap(s_thought, text) \o tail(<<" ">>)>>
        [] stype = s_whisper     -> <<Wrap(s_whisper, text) \o tail(<<" ">>)>>
        [] stype = s_shout       -> <<Wrap(s_shout, text) \o tail(<<" ">>)>>
        [] stype = s_emphasis    -> <<Wrap(s_emphasis, text)>>
        [] stype = s_center      -> <<Wrap(s_center, text)>>
        [] stype = s_right       -> <<Wrap(s_right, text)>>
        [] stype = s_scene_break -> <<<<"-", "-", "-">>>>
        [] stype = s_heading     -> <<<<"#", "#", "#", " ">> \o text>>
        [] OTHER                 -> << >>

\* The parts one segment appends (none for a kind no branch matches).
Fragment(seg) ==
  LET stype     == seg.type.s
      text      == GetOrEmpty(seg.text).s
      narrative == GetOrEmpty(seg.narrative)
      tail(sep) == IF Truthy(narrative) THEN sep \o narrative.s ELSE << >>
  IN  CASE stype = s_text        -> <<text>>
        [] stype = s_dialogue    ->
             <<<<EmDash, " ">> \o text \o tail(<<" ", EmDash, " ">>)>>
        [] stype = s_monolog     -> <<Wrap(s_thought, text) \o tail(<<" ">>)>>
        [] stype = s_whisper     -> <<Wrap(s_whisper, text) \o tail(<<" ">>)>>
        [] stype = s_shout       -> <<Wrap(s_shout, text) \o tail(<<" ">>)>>
        [] stype = s_emphasis    -> <<Wrap(s_emphasis, text)>>
        [] stype = s_center      -> <<Wrap(s_center, text)>>
        [] stype = s_right       -> <<Wrap(s_right, text)>>
        [] stype = s_scene_break -> <<<<"-", "-", "-">>>>
        [] stype = s_heading     -> <<<<"#", "#", "#", " ">> \o text>>
        [] OTHER                 -> << >>

RECURSIVE Parts(_)
Parts(segments) ==
  IF segments = << >> THEN << >>
  ELSE Fragment(Head(segments)) \o Parts(Tail(segments))

_segments_to_markup(segments) == Join(Parts(segments), <<"\n", "\n">>)

\* The statements of _segments_to_markup that can raise: seg["type"] on a
\* segment that is not a dict (TypeError) or has no "type" key (KeyError),
\* and "\n\n".join(parts) on a part that is not a str, which only the
\* "text" kind appends unformatted (TypeError).
MarkupRaises(segments) ==
  \E i \in 1..Len(segments) :
    LET seg == segments[i]
    IN  \/ seg.k # "dict"
        \/ seg.type = Absent
        \/ seg.type = JStr(s_text) /\ ~IsStr(GetOrEmpty(seg.text))

(* ------------------------------- inputs -------------------------------- *)

t_hi      == <<"H","i">>
t_space   == <<" ">>
t_dash    == <<"-"," ","a">>
t_spdash  == <<" ","-"," ","a">>
t_emdash  == <<EmDash," ","a">>
t_tag     == <<"[","T","h","o","u","g","h","t","]","x">>
t_tags    == <<"[","r","i","g","h","t","]","[","/","W","H","I","S","P","E","R","]">>
t_mych1   == <<"M","y"," ","C","h","1"," ">>
t_title   == <<" ","C","H","1","\n">>
t_said    == <<"s","a","i","d">>
t_bogus   == <<"T","e","x","t">>

TypeValues ==
  {Absent, JInt, JTrue, JList, JDict, JStr(t_bogus)}
  \cup {JStr(t) : t \in VALID_SEGMENT_TYPES}

TextValues ==
  {Absent, JNull, JInt}
  \cup {JStr(t) : t \in {<< >>, t_space, t_hi, t_dash, t_spdash, t_emdash,
                         t_tag, t_tags, t_mych1}}

NarrativeValues == {Absent, JNull, JStr(<< >>), JStr(t_space), JStr(t_said)}

TitleValues == {Absent, JInt, JStr(t_space), JStr(t_title)}

Seg(type, text, narrative) ==
  [k |-> "dict", type |-> type, text |-> text, narrative |-> narrative]

\* An element of the segments array that is not a JSON object.
NonDictSeg(k) ==
  [k |-> k, type |-> Absent, text |-> Absent, narrative |-> Absent]

RichSegs ==
  {Seg(ty, tx, na) : ty \in TypeValues, tx \in TextValues,
                     na \in NarrativeValues}
  \cup {NonDictSeg("int"), NonDictSeg("list")}

CommonSegs ==
  {Seg(JStr(s_text), JStr(t_hi), Absent),
   Seg(JStr(s_text), Absent, Absent),
   Seg(JList, Absent, Absent)}

\* Segment arrays of 1..MaxSegs elements taken from CommonSegs.
CommonSeqs == UNION {[1..n -> CommonSegs] : n \in 1..MaxSegs}

\* Segment arrays of 1..MaxSegs elements: those of CommonSeqs, and those
\* with any one segment of RichSegs among copies of one of CommonSegs.
ItemSeqs ==
  CommonSeqs
  \cup UNION {{[i \in 1..n |-> IF i = p THEN r ELSE c] :
                 r \in RichSegs, c \in CommonSegs} :
              n \in 1..MaxSegs, p \in 1..MaxSegs}

Doc(k, title, segments, items) ==
  [k |-> k, title |-> title, segments |-> segments, items |-> items]

NoDoc == Doc("none", Absent, Absent, << >>)

\* JSON values that are not objects, and objects without a usable array.
ShapeDocs ==
  {Doc(k, Absent, Absent, << >>) :
     k \in {"NoneType", "bool", "int", "float", "str", "list"}}
  \cup {Doc("dict", t, sg, << >>) :
          t \in TitleValues, sg \in {Absent, JNull, JInt, JDict, JList}}

Docs ==
  ShapeDocs \cup {Doc("dict", t, JList, it) : t \in TitleValues, it \in ItemSeqs}

\* The documents fed to the commands.
CmdDocs ==
  ShapeDocs
  \cup {Doc("dict", t, JList, it) :
          t \in TitleValues,
          it \in CommonSeqs}

(* ---------------------------- the book cache --------------------------- *)

\* summary_path.exists() is false.
NoFile == <<"no file">>

\* A book of GET /content, reduced to the fields the summary uses.
Book(title, category, description) ==
  [title |-> title, author |-> <<"A">>, publisher |-> <<"P">>,
   category |-> category, description |-> description]

\* A chapter of GET /chapters: "_id", "title" and "content".
Chapter(id, title, text) == [id |-> id, title |-> title, content |-> text]

\* ch_content[:200]
PreviewLen == 200

\* preview = ch_content[:200].replace("\n", " ").strip(), then "..." is
\* appended when len(ch_content) > 200.
Preview(ch_content) ==
  LET preview == Strip(Replace(Prefix(ch_content, PreviewLen),
                               <<"\n">>, <<" ">>))
  IN  IF Len(ch_content) > PreviewLen THEN preview \o <<".",".",".">> ELSE preview

\* f"- **{ch_title}** (id: {ch_id}): {preview}"
ChapterLine(ch) ==
  <<"-"," ","*","*">> \o ch.title \o <<"*","*"," ","(","i","d",":"," ">> \o ch.id \o <<")",":"," ">>
  \o Preview(ch.content)

LastReadPrefix == <<"*","*","L","a","s","t"," ","R","e","a","d","*","*",":">>

\* The lines list of cmd_read and _rebuild_book_cache; stamp is the text
\* put after "**Last Read**: ".
SummaryLines(book_id, bk, chs, stamp) ==
  <<<<"#"," ","B","o","o","k"," ","S","u","m","m","a","r","y",":"," ">> \o bk.title,
    <<"*","*","B","o","o","k"," ","I","D","*","*",":"," ">> \o book_id,
    <<"*","*","A","u","t","h","o","r","*","*",":"," ">> \o bk.author,
    <<"*","*","P","u","b","l","i","s","h","e","r","*","*",":"," ">> \o bk.publisher>>
  \o (IF bk.category # << >>
        THEN <<<<"*","*","C","a","t","e","g","o","r","y","*","*",":"," ">> \o bk.category>> ELSE << >>)
  \o <<LastReadPrefix \o <<" ">> \o stamp,
       <<"*","*","C","h","a","p","t","e","r","s","*","*",":"," ">> \o Digits(Len(chs)),
       << >>>>
  \o (IF bk.description # << >>
        THEN <<<<"#","#"," ","D","e","s","c","r","i","p","t","i","o","n">>, bk.description, << >>>> ELSE << >>)
  \o <<<<"#","#"," ","C","h","a","p","t","e","r","s">>>>
  \o [i \in 1..Len(chs) |-> ChapterLine(chs[i])]

\* Summary with the Last Read of the instant 0.
SummaryStampedAtZero(book_id, bk, chs, t) ==
  Join(SummaryLines(book_id, bk, chs, strftime(0)), <<"\n">>)

\* "\n".join(lines), the text written to <book_id>.md at the instant t.
Summary(book_id, bk, chs, t) ==
  Join(SummaryLines(book_id, bk, chs, strftime(t)), <<"\n">>)

\* _rebuild_book_cache(book_id, bk, chs) at the instant t.
_rebuild_book_cache(files, book_id, bk, chs, t) ==
  [files EXCEPT ![book_id] = Summary(book_id, bk, chs, t)]

\* "if age_days < 7": the bound on the age of a fresh entry, in days.
FreshDays == 7

\* The body of the loop of cmd_read for a line that starts with
\* "**Last Read**:".  "skip": the loop goes on (ValueError caught, or the
\* age is 7 days or more); "raise": subtracting a datetime without offset
\* from datetime.now(timezone.utc) raises TypeError, which the except
\* clause does not name; "fresh": the cached content is printed.
LineVerdict(line, t_now) ==
  LET ts      == Strip(SplitOnce(line, <<":">>)[2])
      read_dt == fromisoformat(Replace(ts, <<"Z">>, UtcOffset))
  IN  IF ~read_dt.ok THEN "skip"
      ELSE IF ~read_dt.aware THEN "raise"
      ELSE IF Days(t_now - read_dt.t) < FreshDays THEN "fresh"
      ELSE "skip"

\* "for line in content.splitlines()": the first line that ends the loop
\* decides; "stale" when the loop runs to its end.
RECURSIVE CacheVerdict(_, _)
CacheVerdict(lines, t_now) ==
  IF lines = << >> THEN "stale"
  ELSE IF /\ StartsWith(Head(lines), LastReadPrefix)
          /\ LineVerdict(Head(lines), t_now) # "skip"
    THEN LineVerdict(Head(lines), t_now)
  ELSE CacheVerdict(Tail(lines), t_now)

\* "if summary_path.exists() and not args.refresh" and the loop.
CheckCache(file, refresh, t_now) ==
  IF file # NoFile /\ ~refresh
    THEN CacheVerdict(SplitLines(file), t_now)
    ELSE "stale"

\* _api(..., quiet=True) returns None for every HTTPError and URLError,
\* the parsed body otherwise.
QuietResult(outcome, body) == IF outcome = "ok" THEN body ELSE JNull

\* The inner loop of the scan of cmd_chapter_read: every line that holds
\* chapter_id and starts with "- **" sets stale_chapter_info to the text
\* between the first two "**"; the last such line is the one that stays.
RECURSIVE TitleHint(_, _, _)
TitleHint(lines, chapter_id, info) ==
  IF lines = << >> THEN info
  ELSE LET line == Head(lines)
       IN  TitleHint(Tail(lines), chapter_id,
             IF Contains(line, chapter_id) /\ StartsWith(line, <<"-"," ","*","*">>)
               THEN JStr(Split(line, <<"*","*">>)[2])
               ELSE info)

\* StaleBooks without the test "args.chapter_id in content".
StaleBooksAnyFile(files, chapter_id) ==
  {b \in DOMAIN files : files[b] # NoFile}

\* The files of mem_dir.glob("*.md") whose content holds chapter_id.
StaleBooks(files, chapter_id) ==
  {b \in DOMAIN files :
     files[b] # NoFile /\ Contains(files[b], chapter_id)}

\* Invalidate that deletes nothing.
InvalidateNothing(files, b) == files

\* Invalidate that deletes every cache file but the one of the book.
InvalidateOthers(files, b) ==
  [c \in DOMAIN files |-> IF c = b THEN files[c] ELSE NoFile]

\* old_cache = mem_dir / f"{stale_book}.md"; old_cache.unlink()
Invalidate(files, b) == [files EXCEPT ![b] = NoFile]

\* Rematch that takes the first chapter when no title is equal.
RematchOrFirst(info, chs) ==
  LET target_title == Strip(Lower(info.s))
      hits == {i \in 1..Len(chs) :
                 Strip(Lower(chs[i].title)) = target_title}
  IN  IF chs = << >> THEN 0
      ELSE IF info = JNull \/ info.s = << >> \/ hits = {} THEN 1
      ELSE CHOOSE i \in hits : \A j \in hits : i <= j

\* The position of the first chapter whose title.lower().strip() equals
\* the hint's, 0 when there is no hint, an empty hint or no such chapter.
Rematch(info, chs) ==
  LET target_title == Strip(Lower(info.s))
      hits == {i \in 1..Len(chs) :
                 Strip(Lower(chs[i].title)) = target_title}
  IN  IF info = JNull \/ info.s = << >> \/ hits = {} THEN 0
      ELSE CHOOSE i \in hits : \A j \in hits : i <= j

(* ----------------------- inputs of read, chapter-read ------------------ *)

id_B  == <<"B">>
id_C  == <<"C">>
id_X  == <<"X">>
id_X2 == <<"X","2">>
id_Y  == <<"Y">>
id_Z  == <<"Z">>
id_W  == <<"W">>

BookIds == {id_B, id_C}

t_intro    == <<"I","n","t","r","o">>
t_intro_sp == <<" ","i","n","t","r","o"," ">>
t_outro    == <<"O","u","t","r","o">>
t_prologue == <<"P","r","o","l","o","g","u","e">>
t_stars    == <<"A","*","*","B">>

c_hello == <<"h","e","l","l","o">>
c_see_x == <<"s","e","e"," ","X">>
c_lines == <<" ","a","\n","b">>
c_long  == [i \in 1..(PreviewLen + 1) |-> "a"]

Week == FreshDays * SecondsPerDay

\* A description whose second line reads like a header line.
d_last_read == <<"d","\n">> \o LastReadPrefix \o <<" ">> \o strftime(Week)

b_plain == Book(<<"T">>, << >>, << >>)
b_full  == Book(<<"T">>, <<"c">>, <<"d">>)

b_see_x  == Book(<<"T">>, << >>, c_see_x)
b_forged == Book(<<"T">>, << >>, d_last_read)

Books == {b_plain, b_full, b_forged}

\* Chapter lists as they were when a cache file was written.
CachedLists ==
  {<< >>,
   <<Chapter(id_X, t_intro, c_hello)>>,
   <<Chapter(id_X, t_intro, c_hello), Chapter(id_X2, t_outro, c_lines)>>,
   <<Chapter(id_Z, t_outro, c_see_x)>>,
   <<Chapter(id_X, t_intro, c_hello), Chapter(id_Z, t_outro, c_see_x)>>,
   <<Chapter(id_X, t_stars, c_hello)>>,
   <<Chapter(id_X, << >>, c_hello)>>,
   <<Chapter(id_Z, t_outro, c_hello)>>}

\* Chapter lists the service returns now.
RefreshedLists ==
  {<< >>,
   <<Chapter(id_Y, t_intro_sp, c_hello)>>,
   <<Chapter(id_Y, t_prologue, c_hello)>>,
   <<Chapter(id_Y, t_intro, c_lines), Chapter(id_W, t_outro, c_long)>>,
   <<Chapter(id_Z, t_intro, c_hello), Chapter(id_Y, t_intro, c_lines)>>,
   <<Chapter(id_Y, t_stars, c_hello)>>}

\* The instants at which a command runs, and those of earlier writes.
NowValues  == {Week - 60, Week - 1, Week, Week + 1}
PastValues == {0, SecondsPerDay}

\* A cache file in which "**Last Read**: " is followed by stamp.
Stamped(bk, chs, stamp) ==
  Join(SummaryLines(id_B, bk, chs, stamp), <<"\n">>)

\* A cache file without its "**Last Read**" line.
Unstamped(bk, chs) ==
  LET l == SummaryLines(id_B, bk, chs, << >>)
  IN  Join(SubSeq(l, 1, 4) \o SubSeq(l, 6, Len(l)), <<"\n">>)

\* Files <id_B>.md the read command can find: written by an earlier read or
\* rebuild, or carrying a Last Read value that is no timestamp, that has
\* no UTC offset, that has the offset spelled out, or none at all.
ReadFiles ==
  {Summary(id_B, b, chs, t) :
     b \in Books,
     chs \in {<< >>, <<Chapter(id_X, t_intro, c_hello)>>},
     t \in PastValues}
  \cup {Stamped(b_plain, << >>, stamp) :
          stamp \in {<<"y","e","s","t","e","r","d","a","y">>, Digits(0), Digits(SecondsPerDay),
                     Digits(SecondsPerDay) \o UtcOffset}}
  \cup {Unstamped(b_plain, << >>)}

\* Cache directories the chapter-read command can find.
ScanCaches ==
  {[b \in BookIds |-> IF b = id_B THEN fb ELSE fc] :
     fb \in {NoFile, Summary(id_B, b_see_x, << >>, 0)}
            \cup {Summary(id_B, b_plain, chs, 0) : chs \in CachedLists},
     fc \in {NoFile,
             Summary(id_C, b_plain, <<Chapter(id_Z, t_outro, c_hello)>>, 0),
             Summary(id_C, b_full, <<Chapter(id_X, t_outro, c_hello)>>, 0)}}

\* How the request of _api ended: a parsed body, an HTTPError with the
\* status code, or a URLError.
ApiOutcomes == {"ok", "http404", "http403", "http500", "urlerror"}

Args(book_id, refresh, chapter_id) ==
  [book_id |-> book_id, refresh |-> refresh, chapter_id |-> chapter_id]

Msg(msg, text) == [msg |-> msg, text |-> text]

\* The files cmd_update downloads, in the order of its files dict.
UpdateFiles ==
  <<"SKILL.md", "references/heartbeat.md", "references/writing-guide.md",
    "tools/moltpad_cli.py", "skills.json">>

FileNames == {UpdateFiles[i] : i \in 1..Len(UpdateFiles)}

\* The content of a file: kind tells the contents apart, v is the text of
\* the "version" entry when the file is a skills.json that parses.
Content(kind, v) == [kind |-> kind, v |-> v]

\* fpath.exists() is false.
Missing == Content("missing", << >>)

\* The update command is not running.
UpdateIdle ==
  /\ check = FALSE
  /\ local_v = << >>
  /\ remote_v = << >>
  /\ disk = [f \in FileNames |-> Missing]
  /\ disk_before = disk
  /\ bak = [f \in FileNames |-> Missing]
  /\ backups = {}
  /\ updated = 0

\* No _api call is being followed.
ApiIdle ==
  /\ retries = 0
  /\ quiet = FALSE
  /\ attempt = 0
  /\ responses = << >>
  /\ result = "unset"

\* The state the other commands leave the cache variables in.
CacheIdle ==
  /\ args = Args(<< >>, FALSE, << >>)
  /\ cache = [b \in BookIds |-> NoFile]
  /\ cache_before = cache
  /\ now = 0
  /\ lookup = "none"
  /\ stale_book = << >>
  /\ stale_chapter_info = JNull
  /\ book = JNull
  /\ chapters = << >>
  /\ chapter = JNull
  /\ out = << >>

(* ------------------------------- actions ------------------------------- *)

Call(method, path) == [method |-> method, path |-> path]

\* AfterValidate without the "if errors:" exit.
AfterValidateIgnoringErrors(r) ==
  IF r.raised THEN "crashed" ELSE "render"

\* Where the command goes after validation: an uncaught exception ends the
\* process, "if errors:" prints the violations and calls sys.exit(1).
AfterValidate(r) ==
  IF r.raised THEN "crashed"
  ELSE IF r.errors # << >> THEN "exit1"
  ELSE "render"

\* chapter_data = _read_chapter_json(): exits when stdin is a terminal, is
\* empty or is not JSON, otherwise returns the parsed value.
_read_chapter_json ==
  /\ pc = "read"
  /\ \/ /\ pc' = "exit1"
        /\ doc' = doc
     \/ /\ \E d \in CmdDocs : doc' = d
        /\ pc' = "validate"
  /\ UNCHANGED <<cmd, raised, errors, content, renders, calls, can_publish,
                 can_contribute, order_index, existing, ctx_saved>>
  /\ UNCHANGED <<cachevars, apivars, updvars>>

\* errors = _validate_chapter_json(chapter_data); if errors: sys.exit(1)
ValidateStep ==
  /\ pc = "validate"
  /\ LET r == _validate_chapter_json(doc)
     IN  /\ raised' = r.raised
         /\ errors' = IF r.raised THEN << >> ELSE r.errors
         /\ pc' = AfterValidate(r)
  /\ UNCHANGED <<cmd, doc, content, renders, calls, can_publish,
                 can_contribute, order_index, existing, ctx_saved>>
  /\ UNCHANGED <<cachevars, apivars, updvars>>

\* content = _segments_to_markup(chapter_data["segments"])
RenderStep ==
  /\ pc = "render"
  /\ content' = IF MarkupRaises(doc.items) THEN content
                ELSE _segments_to_markup(doc.items)
  /\ renders' = renders + 1
  /\ pc' = IF MarkupRaises(doc.items) THEN "crashed" ELSE "agent_id"
  /\ UNCHANGED <<cmd, doc, raised, errors, calls, can_publish,
                 can_contribute, order_index, existing, ctx_saved>>
  /\ UNCHANGED <<cachevars, apivars, updvars>>

(* ------------------- the functions applied to a document --------------- *)

InitDoc ==
  /\ cmd = "none"
  /\ pc = "validate"
  /\ doc \in Docs
  /\ raised = FALSE
  /\ errors = << >>
  /\ content = << >>
  /\ renders = 0
  /\ calls = << >>
  /\ can_publish = FALSE
  /\ can_contribute = FALSE
  /\ order_index = 0
  /\ existing = << >>
  /\ ctx_saved = FALSE
  /\ CacheIdle
  /\ ApiIdle
  /\ UpdateIdle

NextDoc == ValidateStep \/ RenderStep

SpecDoc == InitDoc /\ [][NextDoc]_vars

(* ----------------------- chapter-add and contribute -------------------- *)

\* aid = _agent_id(): _load_creds exits when credentials.json is missing.
_agent_id ==
  /\ pc = "agent_id"
  /\ \/ pc' = "exit1"
     \/ pc' = IF cmd = "chapter-add" THEN "check_rights" ELSE "contribute"
  /\ UNCHANGED <<cmd, doc, raised, errors, content, renders, calls,
                 can_publish, can_contribute, order_index, existing, ctx_saved>>
  /\ UNCHANGED <<cachevars, apivars, updvars>>

\* rights = _api("GET", "/chapters/check-rights?..."); a final HTTP or
\* transport error exits.  Without either right the command exits.
CheckRights ==
  /\ pc = "check_rights"
  /\ calls' = Append(calls, Call("GET", "/chapters/check-rights"))
  /\ \/ /\ pc' = "exit1"
        /\ UNCHANGED <<can_publish, can_contribute>>
     \/ \E cp \in BOOLEAN, cc \in BOOLEAN :
          /\ can_publish' = cp
          /\ can_contribute' = cc
          /\ pc' = IF ~cp /\ ~cc THEN "exit1" ELSE "list_chapters"
  /\ UNCHANGED <<cmd, doc, raised, errors, content, renders, order_index,
                 existing, ctx_saved>>
  /\ UNCHANGED <<cachevars, apivars, updvars>>

\* The orderIndex values of the existing chapters: an int, or -1 for a
\* chapter whose orderIndex is missing or not an int (_order_value).
ChLists == UNION {[1..n -> -1..MaxOrder] : n \in 0..MaxChapters}

MaxOf(S) == CHOOSE x \in S : \A y \in S : y <= x

\* OrderIndex as the number of existing chapters.
OrderIndexByCount(ch_list) == Len(ch_list)

\* order_index = max(_order_value(last_ch), len(ch_list) - 1) + 1, or 0
OrderIndex(ch_list) ==
  IF ch_list = << >> THEN 0
  ELSE MaxOf({MaxOf({ch_list[i] : i \in 1..Len(ch_list)}),
              Len(ch_list) - 1}) + 1

\* existing = _api("GET", "/chapters?contentId=...")
ListChapters ==
  /\ pc = "list_chapters"
  /\ calls' = Append(calls, Call("GET", "/chapters?contentId"))
  /\ \/ /\ pc' = "exit1"
        /\ UNCHANGED <<order_index, existing>>
     \/ \E ch_list \in ChLists :
          /\ existing' = ch_list
          /\ order_index' = OrderIndex(ch_list)
          /\ pc' = IF ch_list # << >> THEN "fetch_last" ELSE "route"
  /\ UNCHANGED <<cmd, doc, raised, errors, content, renders, can_publish,
                 can_contribute, ctx_saved>>
  /\ UNCHANGED <<cachevars, apivars, updvars>>

\* last_full = _api("GET", "/chapters?id=...", quiet=True): None on an
\* error; a dict is saved as lastChapterContext in state.json.
FetchLast ==
  /\ pc = "fetch_last"
  /\ calls' = Append(calls, Call("GET", "/chapters?id"))
  /\ \E got \in BOOLEAN : ctx_saved' = got
  /\ pc' = "route"
  /\ UNCHANGED <<cmd, doc, raised, errors, content, renders, can_publish,
                 can_contribute, order_index, existing>>
  /\ UNCHANGED <<cachevars, apivars, updvars>>

\* PublishPath that never publishes directly.
PublishPathContribution(cp) == "/chapter-contributions"

\* Step 4, "if can_publish: ... else: ...": the path of the POST.
PublishPath(cp) == IF cp THEN "/chapters" ELSE "/chapter-contributions"

\* Step 4: POST /chapters when can_publish, else POST /chapter-contributions
Route ==
  /\ pc = "route"
  /\ calls' = Append(calls, Call("POST", PublishPath(can_publish)))
  /\ pc' \in {"exit1", "done"}
  /\ UNCHANGED <<cmd, doc, raised, errors, content, renders, can_publish,
                 can_contribute, order_index, existing, ctx_saved>>
  /\ UNCHANGED <<cachevars, apivars, updvars>>

\* cmd_contribute: result = _api("POST", "/chapter-contributions", data)
Contribute ==
  /\ pc = "contribute"
  /\ calls' = Append(calls, Call("POST", "/chapter-contributions"))
  /\ pc' \in {"exit1", "done"}
  /\ UNCHANGED <<cmd, doc, raised, errors, content, renders, can_publish,
                 can_contribute, order_index, existing, ctx_saved>>
  /\ UNCHANGED <<cachevars, apivars, updvars>>

Init ==
  /\ cmd \in {"chapter-add", "contribute"}
  /\ pc = "read"
  /\ doc = NoDoc
  /\ raised = FALSE
  /\ errors = << >>
  /\ content = << >>
  /\ renders = 0
  /\ calls = << >>
  /\ can_publish = FALSE
  /\ can_contribute = FALSE
  /\ order_index = 0
  /\ existing = << >>
  /\ ctx_saved = FALSE
  /\ CacheIdle
  /\ ApiIdle
  /\ UpdateIdle

Next ==
  \/ _read_chapter_json
  \/ ValidateStep
  \/ RenderStep
  \/ _agent_id
  \/ CheckRights
  \/ ListChapters
  \/ FetchLast
  \/ Route
  \/ Contribute

Spec == Init /\ [][Next]_vars

(* ------------------------------ cmd_read ------------------------------- *)

\* Where cmd_read goes after looking at the cache file: "return" after
\* printing the cached content, an uncaught exception, or the refetch.
CacheHit(verdict) ==
  CASE verdict = "fresh" -> "done"
    [] verdict = "raise" -> "crashed"
    [] OTHER             -> "fetch_book"

\* Lines 475-493: the cache file is read unless --refresh was given.
ReadCache ==
  /\ cmd = "read" /\ pc = "cache"
  /\ LET to == CacheHit(CheckCache(cache[args.book_id], args.refresh, now))
     IN  /\ pc' = to
         /\ out' = IF to = "done"
                     THEN <<Msg("cached summary", cache[args.book_id])>>
                     ELSE out
  /\ UNCHANGED <<cmd, docvars, apivars, updvars,
                 calls, args, cache, cache_before, now, lookup,
                 stale_book, stale_chapter_info, book, chapters, chapter>>

\* book = _api("GET", "/content?id=...", quiet=True)
ReadFetchBook ==
  /\ cmd = "read" /\ pc = "fetch_book"
  /\ calls' = Append(calls, Call("GET", "/content?id"))
  /\ \E o \in ApiOutcomes, b \in Books :
       /\ book' = QuietResult(o, b)
       /\ pc' = IF book' = JNull THEN "probe_chapter" ELSE "fetch_chapters"
  /\ UNCHANGED <<cmd, docvars, apivars, updvars,
                 args, cache, cache_before, now, lookup,
                 stale_book, stale_chapter_info, chapters, chapter, out>>

\* "if not book": chapter = _api("GET", "/chapters?id=...", quiet=True),
\* one of two error messages, sys.exit(1).
ReadProbeChapter ==
  /\ cmd = "read" /\ pc = "probe_chapter"
  /\ calls' = Append(calls, Call("GET", "/chapters?id"))
  /\ \E o \in ApiOutcomes :
       out' = <<Msg(IF o = "ok" THEN "is a chapter id" ELSE "book not found",
                    << >>)>>
  /\ pc' = "exit1"
  /\ UNCHANGED <<cmd, docvars, apivars, updvars,
                 args, cache, cache_before, now, lookup,
                 stale_book, stale_chapter_info, book, chapters, chapter>>

\* chapters_resp = _api("GET", "/chapters?contentId=...&forAgent=true"):
\* not quiet, so a final HTTP or transport error exits.  Then the summary
\* is built, written to the cache file and printed.
ReadFetchChapters ==
  /\ cmd = "read" /\ pc = "fetch_chapters"
  /\ calls' = Append(calls, Call("GET", "/chapters?contentId&forAgent"))
  /\ \/ /\ pc' = "exit1"
        /\ UNCHANGED <<chapters, cache, out>>
     \/ \E chs \in RefreshedLists :
          /\ chapters' = chs
          /\ cache' = _rebuild_book_cache(cache, args.book_id, book, chs, now)
          /\ out' = <<Msg("summary",
                          Summary(args.book_id, book, chs, now))>>
          /\ pc' = "done"
  /\ UNCHANGED <<cmd, docvars, apivars, updvars,
                 args, cache_before, now, lookup, stale_book,
                 stale_chapter_info, book, chapter>>

(* --------------------------- cmd_chapter_read -------------------------- *)

\* chapter = _api("GET", "/chapters?id=...&forAgent=true", quiet=True);
\* "if not chapter" enters the stale-id resolution.
ChapterLookup ==
  /\ cmd = "chapter-read" /\ pc = "lookup"
  /\ calls' = Append(calls, Call("GET", "/chapters?id&forAgent"))
  /\ \E o \in ApiOutcomes :
       /\ lookup' = o
       /\ chapter' = QuietResult(o, Chapter(args.chapter_id, t_intro, c_hello))
       /\ pc' = IF chapter' = JNull THEN "scan" ELSE "print"
  /\ UNCHANGED <<cmd, docvars, apivars, updvars,
                 args, cache, cache_before, now, stale_book,
                 stale_chapter_info, book, chapters, out>>

\* Lines 1208-1235 and 1287-1294: the scan of the cache files.  Without a
\* file that holds the id the command prints "Chapter not found" and
\* exits; otherwise the file found first is remembered and deleted.
ResolverScan ==
  /\ cmd = "chapter-read" /\ pc = "scan"
  /\ IF StaleBooks(cache, args.chapter_id) = {}
       THEN /\ out' = <<Msg("chapter not found", << >>)>>
            /\ pc' = "exit1"
            /\ UNCHANGED <<stale_book, stale_chapter_info, cache>>
       ELSE \E b \in StaleBooks(cache, args.chapter_id) :
              /\ stale_book' = b
              /\ stale_chapter_info' =
                   TitleHint(Split(cache[b], <<"\n">>), args.chapter_id, JNull)
              /\ cache' = Invalidate(cache, b)
              /\ pc' = "refetch_book"
              /\ out' = out
  /\ UNCHANGED <<cmd, docvars, apivars, updvars,
                 calls, args, cache_before, now, lookup, book,
                 chapters, chapter>>

\* book = _api("GET", "/content?id=<stale_book>", quiet=True);
\* "if not book": "no longer exists", sys.exit(1).
ResolverFetchBook ==
  /\ cmd = "chapter-read" /\ pc = "refetch_book"
  /\ calls' = Append(calls, Call("GET", "/content?id"))
  /\ \E o \in ApiOutcomes :
       /\ book' = QuietResult(o, b_plain)
       /\ pc' = IF book' = JNull THEN "exit1" ELSE "refetch_chapters"
       /\ out' = IF book' = JNull
                   THEN <<Msg("book no longer exists", << >>)>> ELSE out
  /\ UNCHANGED <<cmd, docvars, apivars, updvars,
                 args, cache, cache_before, now, lookup,
                 stale_book, stale_chapter_info, chapters, chapter>>

\* chapters_resp = _api("GET", "/chapters?contentId=...", quiet=True) and
\* the rest of the resolution: "has no chapters" for an empty list (or no
\* response); else the title match, the cache rebuild, and either the
\* list of current chapters with sys.exit(1) or the matched chapter.
ResolverFetchChapters ==
  /\ cmd = "chapter-read" /\ pc = "refetch_chapters"
  /\ calls' = Append(calls, Call("GET", "/chapters?contentId&forAgent"))
  /\ \E o \in ApiOutcomes, body \in RefreshedLists :
       LET chs == IF o = "ok" THEN body ELSE << >>
           hit == Rematch(stale_chapter_info, chs)
       IN  /\ chapters' = chs
           /\ IF chs = << >>
                THEN /\ out' = <<Msg("book has no chapters", << >>)>>
                     /\ pc' = "exit1"
                     /\ UNCHANGED <<cache, chapter, args>>
                ELSE IF hit = 0
                THEN /\ out' = <<Msg("could not auto-match", << >>)>>
                     /\ cache' = _rebuild_book_cache(cache, stale_book, book,
                                                     chs, now)
                     /\ pc' = "exit1"
                     /\ UNCHANGED <<chapter, args>>
                ELSE /\ chapter' = chs[hit]
                     /\ args' = [args EXCEPT !.chapter_id = chs[hit].id]
                     /\ cache' = _rebuild_book_cache(cache, stale_book, book,
                                                     chs, now)
                     /\ pc' = "print"
                     /\ out' = out
  /\ UNCHANGED <<cmd, docvars, apivars, updvars,
                 cache_before, now, lookup, stale_book,
                 stale_chapter_info, book>>

\* Lines 1296-1313: "OK: Chapter retrieved", the id and the full content.
PrintChapter ==
  /\ cmd = "chapter-read" /\ pc = "print"
  /\ out' = <<Msg("chapter retrieved", chapter.content)>>
  /\ pc' = "done"
  /\ UNCHANGED <<cmd, docvars, apivars, updvars,
                 calls, args, cache, cache_before, now, lookup,
                 stale_book, stale_chapter_info, book, chapters, chapter>>

InitCache ==
  /\ cmd \in {"read", "chapter-read"}
  /\ pc = IF cmd = "read" THEN "cache" ELSE "lookup"
  /\ doc = NoDoc
  /\ raised = FALSE
  /\ errors = << >>
  /\ content = << >>
  /\ renders = 0
  /\ calls = << >>
  /\ can_publish = FALSE
  /\ can_contribute = FALSE
  /\ order_index = 0
  /\ existing = << >>
  /\ ctx_saved = FALSE
  /\ ApiIdle
  /\ UpdateIdle
  /\ IF cmd = "read"
       THEN /\ args \in {Args(id_B, r, << >>) : r \in BOOLEAN}
            /\ cache \in {[b \in BookIds |-> IF b = id_B THEN f ELSE NoFile] :
                            f \in {NoFile} \cup ReadFiles}
            /\ now \in NowValues
       ELSE /\ args = Args(<< >>, FALSE, id_X)
            /\ cache \in ScanCaches
            /\ now = Week
  /\ cache_before = cache
  /\ lookup = "none"
  /\ stale_book = << >>
  /\ stale_chapter_info = JNull
  /\ book = JNull
  /\ chapters = << >>
  /\ chapter = JNull
  /\ out = << >>

NextCache ==
  \/ ReadCache
  \/ ReadFetchBook
  \/ ReadProbeChapter
  \/ ReadFetchChapters
  \/ ChapterLookup
  \/ ResolverScan
  \/ ResolverFetchBook
  \/ ResolverFetchChapters
  \/ PrintChapter

SpecCache == InitCache /\ [][NextCache]_vars

(* --------------------------------- _api -------------------------------- *)

\* The state the commands with a chapter document start from.
DocIdle ==
  /\ doc = NoDoc
  /\ raised = FALSE
  /\ errors = << >>
  /\ content = << >>
  /\ renders = 0
  /\ can_publish = FALSE
  /\ can_contribute = FALSE
  /\ order_index = 0
  /\ existing = << >>
  /\ ctx_saved = FALSE

\* How one urlopen of _api ends: a response that was read ("ok", with a
\* JSON body, an empty body or a body that is no JSON), HTTPError with a
\* status code, URLError, or a socket timeout, which is no URLError.
Resp(kind, code) == [kind |-> kind, code |-> code]

HttpCodes == {400, 403, 404, 500, 501, 502, 503, 504}

Responses ==
  {Resp(k, 200) : k \in {"json", "empty", "not json"}}
  \cup {Resp("HTTPError", c) : c \in HttpCodes}
  \cup {Resp("URLError", 0), Resp("TimeoutError", 0)}

\* "if e.code in (500, 502, 503, 504)"
TransientCodes == {500, 502, 503, 504}

\* _api(..., retries=1)
DefaultRetries == 1

\* AfterResponse that sleeps and continues after every HTTPError.
AfterResponseRetryAnyError(r, q, n, k) ==
  CASE r.kind \in {"json", "empty"} -> "returned"
    [] r.kind \in {"not json", "TimeoutError"} -> "crashed"
    [] q                            -> "returned"
    [] n < k                        -> "sleep"
    [] OTHER                        -> "exit1"

\* Where one iteration of the loop of _api leaves the call, for the
\* response r, quiet q, attempt n and retries k: "returned" (return),
\* "sleep" (time.sleep(2); continue), "exit1" (sys.exit(1)), "crashed"
\* (json.loads raises on the body of a response, or the exception of the
\* request is none the loop catches).
AfterResponse(r, q, n, k) ==
  CASE r.kind \in {"json", "empty"} -> "returned"
    [] r.kind \in {"not json", "TimeoutError"} -> "crashed"
    [] q                            -> "returned"
    [] r.kind = "HTTPError" /\ r.code \in TransientCodes /\ n < k -> "sleep"
    [] r.kind = "URLError" /\ n < k -> "sleep"
    [] OTHER                        -> "exit1"

\* The value _api returns for the response r.
Returned(r) ==
  CASE r.kind = "json"  -> "parsed body"
    [] r.kind = "empty" -> "{}"
    [] OTHER            -> "None"

\* One iteration of "for attempt in range(1 + retries)": the request and
\* the handling of how it ended.
ApiAttempt ==
  /\ cmd = "_api" /\ pc = "request"
  /\ attempt < 1 + retries
  /\ \E r \in Responses :
       /\ responses' = Append(responses, r)
       /\ pc' = AfterResponse(r, quiet, attempt, retries)
       /\ result' = IF pc' = "returned" THEN Returned(r) ELSE result
  /\ UNCHANGED <<cmd, calls, docvars, cachevars, updvars,
                 retries, quiet, attempt>>

\* time.sleep(2); continue
ApiSleep ==
  /\ cmd = "_api" /\ pc = "sleep"
  /\ attempt' = attempt + 1
  /\ pc' = "request"
  /\ UNCHANGED <<cmd, calls, docvars, cachevars, updvars,
                 retries, quiet, responses,
                 result>>

InitApi ==
  /\ cmd = "_api"
  /\ pc = "request"
  /\ calls = << >>
  /\ DocIdle
  /\ CacheIdle
  /\ retries \in 0..MaxRetries
  /\ quiet \in BOOLEAN
  /\ attempt = 0
  /\ responses = << >>
  /\ result = "unset"
  /\ UpdateIdle

NextApi == ApiAttempt \/ ApiSleep

SpecApi == InitApi /\ [][NextApi]_vars

(* ------------------------------ cmd_update ----------------------------- *)

v_default == <<"0",".","0",".","0">>
v_1_0     == <<"1",".","0">>
v_1_0_0   == <<"1",".","0",".","0">>
v_1_0_1   == <<"1",".","0",".","1">>
v_1_9_0   == <<"1",".","9",".","0">>
v_1_10_0  == <<"1",".","1","0",".","0">>
v_1_0_1_5 == <<"1",".","0",".","1",".","5">>
v_2_beta  == <<"2",".","0",".","0","-","b","e","t","a">>

\* The "version" texts of the local and the remote skills.json.
Versions ==
  {v_1_0, v_1_0_0, v_1_0_1, v_1_9_0, v_1_10_0, v_1_0_1_5, v_2_beta}

\* int(p) raises ValueError: p is not a run of decimal digits.
IntRaises(p) == p = << >> \/ \E i \in 1..Len(p) : ~IsDigit(p[i])

\* _version_tuple(v): tuple(int(p) for p in v.split(".")[:3]), and
\* (0, 0, 0) when an int(p) raises ValueError.
_version_tuple(v) ==
  LET parts == Prefix(Split(v, <<".">>), 3)
  IN  IF \E i \in 1..Len(parts) : IntRaises(parts[i])
        THEN <<0, 0, 0>>
        ELSE [i \in 1..Len(parts) |-> Number(parts[i])]

\* a <= b for tuples of ints: the first position at which they differ
\* decides, a prefix is smaller than its extensions.
TupleLeq(a, b) ==
  LET m == IF Len(a) < Len(b) THEN Len(a) ELSE Len(b)
      D == {i \in 1..m : a[i] # b[i]}
  IN  IF D = {} THEN Len(a) <= Len(b)
      ELSE a[CHOOSE i \in D : \A j \in D : i <= j]
             < b[CHOOSE i \in D : \A j \in D : i <= j]

\* _local_version(): the "version" of skills.json, "0.0.0" when the file
\* is missing or is no JSON.
_local_version(d) ==
  IF d["skills.json"].kind = "old" THEN d["skills.json"].v ELSE v_default

\* The content GET <remote>/<file> returns for the remote version rv.
Remote(f, rv) ==
  IF f = "skills.json" THEN Content("new", rv) ELSE Content("new", << >>)

\* The contents a file of the update set can have before the command.
Installed(f) ==
  IF f = "skills.json"
    THEN {Missing, Content("corrupt", << >>)}
         \cup {Content("old", v) : v \in Versions}
    ELSE {Missing, Content("old", << >>)}

\* Disks with the documentation files all present or all missing.
Disks ==
  {[f \in FileNames |->
      CASE f = "skills.json"          -> sj
        [] f = "tools/moltpad_cli.py" -> Content("old", << >>)
        [] f = "SKILL.md"             -> sk
        [] OTHER                      -> rf] :
     sj \in Installed("skills.json"), sk \in Installed("SKILL.md"),
     rf \in Installed("references/heartbeat.md")}

\* The backup loop run over the first n files: shutil.copy2(fpath, bpath)
\* for every file that exists.
BackedUp(d, n) ==
  {UpdateFiles[i] : i \in {j \in 1..n : d[UpdateFiles[j]] # Missing}}

\* Rollback that restores nothing.
RollbackNothing(d, b, keys) == d

\* "for rel_path, bpath in backups.items(): shutil.copy2(bpath, ...)"
Rollback(d, b, keys) ==
  [f \in FileNames |-> IF f \in keys THEN b[f] ELSE d[f]]

\* local_v = _local_version()
UpdLocalVersion ==
  /\ cmd = "update" /\ pc = "local_version"
  /\ local_v' = _local_version(disk)
  /\ pc' = "remote_version"
  /\ UNCHANGED <<cmd, calls, docvars, cachevars, apivars, check, remote_v,
                 disk, disk_before, bak, backups, updated>>

\* remote_v from the remote skills.json; any exception exits.
UpdRemoteVersion ==
  /\ cmd = "update" /\ pc = "remote_version"
  /\ \/ /\ pc' = "exit1"
        /\ out' = <<Msg("cannot fetch remote version", << >>)>>
        /\ UNCHANGED remote_v
     \/ \E rv \in Versions :
          /\ remote_v' = rv
          /\ pc' = "compare"
          /\ UNCHANGED out
  /\ UNCHANGED <<cmd, calls, docvars, apivars, check, local_v, disk,
                 disk_before, bak, backups, updated, args, cache,
                 cache_before, now, lookup, stale_book, stale_chapter_info,
                 book, chapters, chapter>>

\* "if args.check:" and "if _version_tuple(remote_v) <=
\* _version_tuple(local_v):"
UpdCompare ==
  /\ cmd = "update" /\ pc = "compare"
  /\ LET newer == ~TupleLeq(_version_tuple(remote_v), _version_tuple(local_v))
     IN  /\ pc' = IF check \/ ~newer THEN "done" ELSE "backup"
         /\ out' = IF check /\ newer
                     THEN <<Msg("update available", remote_v)>>
                   ELSE IF ~newer THEN <<Msg("up to date", local_v)>>
                   ELSE out
  /\ UNCHANGED <<cmd, calls, docvars, apivars, updvars, args, cache,
                 cache_before, now, lookup, stale_book, stale_chapter_info,
                 book, chapters, chapter>>

\* The backup loop: it runs to its end, or a copy raises after n files and
\* the exception ends the command.
UpdBackup ==
  /\ cmd = "update" /\ pc = "backup"
  /\ \E n \in 0..Len(UpdateFiles) :
       /\ backups' = BackedUp(disk, n)
       /\ bak' = [f \in FileNames |->
                    IF f \in BackedUp(disk, n) THEN disk[f] ELSE bak[f]]
       /\ pc' = IF n = Len(UpdateFiles) THEN "download" ELSE "crashed"
  /\ UNCHANGED <<cmd, calls, docvars, cachevars, apivars, check, local_v,
                 remote_v, disk, disk_before, updated>>

\* One iteration of the download loop, for the file after the updated
\* ones: the file is written; or _fetch_url raises and the file is left as
\* it is; or write_bytes raises and leaves part of the content.  An
\* exception runs the rollback and exits.  After the last file the backups
\* are unlinked.
UpdDownload ==
  /\ cmd = "update" /\ pc = "download"
  /\ updated < Len(UpdateFiles)
  /\ LET f == UpdateFiles[updated + 1]
     IN  \/ /\ disk' = [disk EXCEPT ![f] = Remote(f, remote_v)]
            /\ updated' = updated + 1
            /\ pc' = IF updated' = Len(UpdateFiles) THEN "clean" ELSE "download"
            /\ UNCHANGED out
         \/ \E written \in {disk[f], Content("partial", << >>)} :
              /\ disk' = Rollback([disk EXCEPT ![f] = written],
                                  bak, backups)
              /\ pc' = "exit1"
              /\ out' = <<Msg("rollback", << >>)>>
              /\ UNCHANGED updated
  /\ UNCHANGED <<cmd, calls, docvars, apivars, check, local_v, remote_v,
                 disk_before, bak, backups, args, cache, cache_before, now,
                 lookup, stale_book, stale_chapter_info, book, chapters,
                 chapter>>

\* "for bpath in backups.values(): bpath.unlink(missing_ok=True)"
UpdClean ==
  /\ cmd = "update" /\ pc = "clean"
  /\ bak' = [f \in FileNames |-> IF f \in backups THEN Missing ELSE bak[f]]
  /\ pc' = "done"
  /\ out' = <<Msg("updated", remote_v)>>
  /\ UNCHANGED <<cmd, calls, docvars, apivars, check, local_v, remote_v,
                 disk, disk_before, backups, updated, args, cache,
                 cache_before, now, lookup, stale_book, stale_chapter_info,
                 book, chapters, chapter>>

InitUpdate ==
  /\ cmd = "update"
  /\ pc = "local_version"
  /\ calls = << >>
  /\ DocIdle
  /\ CacheIdle
  /\ ApiIdle
  /\ check \in BOOLEAN
  /\ local_v = << >>
  /\ remote_v = << >>
  /\ disk \in Disks
  /\ disk_before = disk
  /\ bak = [f \in FileNames |-> Missing]
  /\ backups = {}
  /\ updated = 0

NextUpdate ==
  \/ UpdLocalVersion
  \/ UpdRemoteVersion
  \/ UpdCompare
  \/ UpdBackup
  \/ UpdDownload
  \/ UpdClean

SpecUpdate == InitUpdate /\ [][NextUpdate]_vars

(* ------------------------------- claims -------------------------------- *)

\* _validate_chapter_json has been applied to doc.
Validated == doc # NoDoc /\ pc \notin {"read", "validate"}

\* Positions in the returned list of the violations reported for segments[i].
ViolationsOf(i) == {n \in 1..Len(errors) : errors[n].seg = i}

CodedAt(i, code) ==
  {n \in 1..Len(errors) : errors[n].seg = i /\ errors[n].code = code}

KindOf(sg) == IF sg.k = "dict" /\ IsStr(sg.type) THEN sg.type.s ELSE << >>

\* C1: _validate_chapter_json never raises, whatever the parsed JSON value
\* (segments whose type, text or narrative is a number, boolean, null,
\* array or object included); it returns a list of violations, and for a
\* non-object input that list has exactly one element, which names the
\* actual type of the input.
C1_NeverRaises ==
  Validated =>
    /\ ~raised
    /\ doc.k # "dict" =>
         /\ Len(errors) = 1
         /\ errors[1].code = "not_object"
         /\ errors[1].ty = doc.k

\* A document missing title or segments, or whose segments is empty or not
\* an array.
MissingShape(d) ==
  /\ d.k = "dict"
  /\ \/ Get(d.title) = JNull
     \/ Get(d.segments) = JNull
     \/ d.segments.k # "list"
     \/ d.items = << >>

\* C2: in chapter-add and contribute validation runs before rendering and
\* before any remote request: a document whose violation list is non-empty
\* (in particular one missing title or segments, or whose segments is empty
\* or not an array) makes the command terminate with failure with
\* _segments_to_markup never invoked and no remote request issued.
C2_ValidationFirst ==
  /\ (renders > 0 \/ calls # << >>) =>
       /\ Validated
       /\ ~raised
       /\ errors = << >>
       /\ ~MissingShape(doc)
  /\ (Validated /\ (errors # << >> \/ MissingShape(doc))) =>
       /\ pc \in {"exit1", "crashed"}
       /\ renders = 0
       /\ calls = << >>
  /\ errors # << >> => pc = "exit1"

C2_Witness ==
  /\ cmd = "chapter-add"
  /\ pc = "exit1"
  /\ Len(errors) = 2
  /\ errors[1].code = "title_missing"
  /\ Len(doc.items) = 2

\* The data model of a chapter document.
Conforms(d) ==
  /\ d.k = "dict"
  /\ IsStr(d.title) /\ Strip(d.title.s) # << >>
  /\ d.segments.k = "list" /\ d.items # << >>
  /\ \A i \in 1..Len(d.items) :
       LET sg == d.items[i]
       IN  /\ sg.k = "dict"
           /\ IsStr(sg.type) /\ sg.type.s \in VALID_SEGMENT_TYPES
           /\ sg.type.s = s_scene_break =>
                ~Has(sg.text) /\ ~Has(sg.narrative)
           /\ sg.type.s # s_scene_break =>
                IsStr(sg.text) /\ Strip(sg.text.s) # << >>
           /\ Has(sg.narrative) =>
                /\ sg.type.s \in {s_dialogue, s_monolog, s_whisper, s_shout}
                /\ IsStr(sg.narrative) /\ Strip(sg.narrative.s) # << >>

\* C3: if _validate_chapter_json returns an empty list, the document
\* satisfies the data model: a title non-empty after trimming, a non-empty
\* array of segments of the ten known kinds, no text or narrative key on a
\* scene_break, a text non-empty after trimming on every other kind, and
\* narrative only on dialogue, monolog, whisper or shout, non-empty after
\* trimming.
C3_EmptyListConforms ==
  (Validated /\ ~raised /\ errors = << >>) => Conforms(doc)

C3_Witness ==
  /\ Validated /\ ~raised /\ errors = << >>
  /\ Len(doc.items) = 2
  /\ KindOf(doc.items[2]) = s_whisper
  /\ Has(doc.items[2].narrative)

\* C4: validation is not fail-fast across segments: when segments is a
\* non-empty array every segment is checked, a violation in the title or in
\* one segment never suppresses the violations another segment produces on
\* its own, and the returned list is in segment order.
C4_AllSegmentsInOrder ==
  (Validated /\ doc.k = "dict" /\ doc.segments.k = "list"
     /\ doc.items # << >>) =>
    /\ ~raised
    /\ \A j \in 1..Len(doc.items) :
         ~TypeTestRaises(doc.items[j]) =>
           \A n \in 1..Len(SegErrors(j - 1, doc.items[j])) :
             \E m \in 1..Len(errors) :
               errors[m] = SegErrors(j - 1, doc.items[j])[n]
    /\ \A m, n \in 1..Len(errors) :
         m < n => errors[m].seg <= errors[n].seg

\* C5: for every scene_break segment validation flags the extra fields text
\* and narrative independently: one violation when one of them is present,
\* two when both are, none when neither is.
C5_SceneBreakExtraFields ==
  Validated =>
    \A i \in 1..Len(doc.items) :
      KindOf(doc.items[i]) = s_scene_break =>
        Cardinality(ViolationsOf(i - 1)) =
          (IF Has(doc.items[i].text) THEN 1 ELSE 0)
          + (IF Has(doc.items[i].narrative) THEN 1 ELSE 0)

\* The segment at position i, without its narrative field, is well-formed for
\* its kind: it draws no violation.
WellFormedWithoutNarrative(i) ==
  /\ SegErrors(i - 1, [doc.items[i] EXCEPT !.narrative = Absent]) = << >>
  /\ ~(i = 1 /\ TitleDupErrors(doc) # << >>)

\* C6: a segment of a kind outside dialogue, monolog, whisper, shout that
\* carries a narrative field, and is otherwise well-formed for its kind, gets
\* exactly one violation, whatever the value of narrative.
C6_NarrativeOutsideSpeech ==
  Validated =>
    \A i \in 1..Len(doc.items) :
      (/\ KindOf(doc.items[i]) \in
            VALID_SEGMENT_TYPES \ {s_dialogue, s_monolog, s_whisper, s_shout}
       /\ Has(doc.items[i].narrative)
       /\ WellFormedWithoutNarrative(i)) =>
        Cardinality(ViolationsOf(i - 1)) = 1

\* The raw tags whose open or close form the text contains, in any case.
TagsIn(text) ==
  {t \in {s_thought, s_whisper, s_shout, s_emphasis, s_center, s_right} :
     \/ Contains(Lower(text), OpenTag(t))
     \/ Contains(Lower(text), CloseTag(t))}

\* C7: a segment whose text contains, in any letter case, the open or close
\* form of one of the raw tags is rejected with a violation that names the
\* structured type to use instead (monolog for thought, the tag's own name
\* otherwise), and no segment gets more than one raw-tag violation.
C7_RawTagRejected ==
  Validated =>
    \A i \in 1..Len(doc.items) :
      /\ Cardinality(CodedAt(i - 1, "raw_tag")) <= 1
      /\ (/\ doc.items[i].k = "dict"
          /\ IsStr(doc.items[i].text)
          /\ TagsIn(doc.items[i].text.s) # {}) =>
           \E n \in CodedAt(i - 1, "raw_tag") :
             /\ errors[n].a \in TagsIn(doc.items[i].text.s)
             /\ errors[n].names =
                  {IF errors[n].a = s_thought THEN s_monolog ELSE errors[n].a}

\* C8: every text-kind segment whose trimmed text begins with an em-dash and
\* a space, or a hyphen and a space, is rejected with the violation hinting
\* at a dialogue segment; segments of other kinds never get that violation.
C8_DialogueDash ==
  Validated =>
    \A i \in 1..Len(doc.items) :
      /\ (/\ KindOf(doc.items[i]) = s_text
          /\ IsStr(doc.items[i].text)
          /\ \/ StartsWith(Strip(doc.items[i].text.s), <<EmDash, " ">>)
             \/ StartsWith(Strip(doc.items[i].text.s), <<"-", " ">>)) =>
           CodedAt(i - 1, "dialogue_dash") # {}
      /\ KindOf(doc.items[i]) # s_text =>
           CodedAt(i - 1, "dialogue_dash") = {}

\* The first segment is a heading whose trimmed, lower-cased text equals or
\* contains the trimmed, lower-cased non-empty title.
HeadingRepeatsTitle(d) ==
  /\ d.items # << >>
  /\ KindOf(d.items[1]) = s_heading
  /\ IsStr(d.items[1].text)
  /\ IsStr(d.title)
  /\ Strip(d.title.s) # << >>
  /\ \/ Lower(Strip(d.items[1].text.s)) = Lower(Strip(d.title.s))
     \/ Contains(Lower(Strip(d.items[1].text.s)), Lower(Strip(d.title.s)))

\* C9: the title-duplication violation is produced exactly when the first
\* segment is a heading whose trimmed, lower-cased text equals or contains
\* the trimmed, lower-cased non-empty title; never for a heading at another
\* position, nor for a first segment of another kind.
C9_TitleDuplicate ==
  Validated =>
    /\ HeadingRepeatsTitle(doc) <=>
         (\E n \in 1..Len(errors) : errors[n].code = "title_duplicate")
    /\ \A n \in 1..Len(errors) :
         errors[n].code = "title_duplicate" => errors[n].seg = 0

\* The fragment the table of the renderer gives for one segment.
TableFragment(sg) ==
  LET kind == sg.type.s
      tag  == IF kind = s_monolog THEN s_thought ELSE kind
      narr(sep) == IF Has(sg.narrative) THEN sep \o sg.narrative.s ELSE << >>
  IN  IF kind = s_text THEN sg.text.s
      ELSE IF kind = s_dialogue
        THEN <<EmDash, " ">> \o sg.text.s \o narr(<<" ", EmDash, " ">>)
      ELSE IF kind \in {s_monolog, s_whisper, s_shout}
        THEN <<"[">> \o tag \o <<"]">> \o sg.text.s
             \o <<"[", "/">> \o tag \o <<"]">> \o narr(<<" ">>)
      ELSE IF kind \in {s_emphasis, s_center, s_right}
        THEN <<"[">> \o tag \o <<"]">> \o sg.text.s
             \o <<"[", "/">> \o tag \o <<"]">>
      ELSE IF kind = s_scene_break THEN <<"-", "-", "-">>
      ELSE <<"#", "#", "#", " ">> \o sg.text.s

\* The fragments of segments 1..n, a blank line between consecutive ones.
RECURSIVE TableMarkup(_, _)
TableMarkup(segments, n) ==
  IF n = 0 THEN << >>
  ELSE IF n = 1 THEN TableFragment(segments[1])
  ELSE TableMarkup(segments, n - 1) \o <<"\n", "\n">>
       \o TableFragment(segments[n])

\* C10: for every validated segment sequence _segments_to_markup returns the
\* per-kind fragments of the table (narrative appended when present), joined
\* by "\n\n" in the original segment order; the result is a function of the
\* input alone.
C10_MarkupIsTable ==
  (pc = "agent_id" /\ renders = 1) =>
    content = TableMarkup(doc.items, Len(doc.items))

C10_Witness ==
  /\ pc = "agent_id"
  /\ Len(doc.items) = 2
  /\ KindOf(doc.items[1]) = s_dialogue
  /\ Has(doc.items[1].narrative)
  /\ content = <<EmDash, " ", "H", "i", " ", EmDash, " ", "s", "a", "i", "d",
                 "\n", "\n", "H", "i">>

\* C11: _segments_to_markup is total on every segment sequence that passed
\* validation: no statement of it raises, and it appends exactly one
\* fragment per segment, so the "\n\n"-joined fragments are as many as the
\* segments.
C11_MarkupTotal ==
  (Validated /\ ~raised /\ errors = << >> /\ doc.segments.k = "list") =>
    /\ ~MarkupRaises(doc.items)
    /\ Len(Parts(doc.items)) = Len(doc.items)
    /\ renders = 1 =>
          /\ pc # "crashed"
          /\ content = Join(Parts(doc.items), <<"\n", "\n">>)

\* A validated sequence of MaxSegs segments, one of them a scene break,
\* has been rendered.
C11_Witness ==
  /\ cmd = "none" /\ renders = 1 /\ pc = "agent_id"
  /\ Len(doc.items) = MaxSegs
  /\ \E i \in 1..Len(doc.items) : doc.items[i].type = JStr(s_scene_break)
  /\ Len(Parts(doc.items)) = MaxSegs

(* ------------------- claims on the cache and the resolver -------------- *)

Terminated == pc \in {"done", "exit1", "crashed"}

FetchBook == Call("GET", "/content?id")

FetchChapters == Call("GET", "/chapters?contentId&forAgent")

\* The lines of a cache file up to its first empty line.
RECURSIVE HeaderLines(_)
HeaderLines(lines) ==
  IF lines = << >> \/ Head(lines) = << >> THEN << >>
  ELSE <<Head(lines)>> \o HeaderLines(Tail(lines))

\* The value of the Last Read line of the header, << >> without the line.
HeaderStamp(file) ==
  LET h == HeaderLines(Split(file, <<"\n">>))
      S == {i \in 1..Len(h) : StartsWith(h[i], LastReadPrefix)}
  IN  IF S = {} THEN << >>
      ELSE LET i == CHOOSE i \in S : \A j \in S : i <= j
           IN  Strip(SubSeq(h[i], Len(LastReadPrefix) + 1, Len(h[i])))

\* The header's Last Read, read as a timestamp.
HeaderTime(file) == fromisoformat(Replace(HeaderStamp(file), <<"Z">>, UtcOffset))

\* The entry has a Last Read that is a timestamp with a UTC offset.
Usable(file) ==
  file # NoFile /\ HeaderTime(file).ok /\ HeaderTime(file).aware

\* isFresh of the cache store: now - entry.lastReadAt < 7 days.
IsFresh(file, t_now) ==
  Usable(file) /\ t_now - HeaderTime(file).t < FreshDays * SecondsPerDay

\* The read command printed the cached summary and issued no request.
ServedFromCache == cmd = "read" /\ pc = "done" /\ calls = << >>

\* C12: the read command treats a cached entry as fresh if and only if
\* now - lastReadAt < 7 days (7 days and 1 second is stale, 6 days 23 hours
\* 59 minutes is fresh): once the cache was looked at without --refresh,
\* the command is served from the cache exactly when the entry's Last Read
\* is less than 7 days before now.
C12_FreshWithinSevenDays ==
  (/\ cmd = "read" /\ pc # "cache" /\ ~args.refresh
   /\ Usable(cache_before[args.book_id])) =>
    (ServedFromCache <=> IsFresh(cache_before[args.book_id], now))

\* C13: a cached entry whose Last Read cannot be used as a timestamp
\* (missing line, malformed text, timestamp without UTC offset) is treated
\* as stale, never as fresh: the read command does not fail on it and goes
\* on to the refetch, whose first request is the book fetch.
C13_UnusableIsStale ==
  (/\ cmd = "read" /\ pc # "cache" /\ ~args.refresh
   /\ cache_before[args.book_id] # NoFile
   /\ ~Usable(cache_before[args.book_id])) =>
    /\ pc # "crashed"
    /\ ~ServedFromCache
    /\ pc = "fetch_book" \/ (calls # << >> /\ calls[1] = FetchBook)

\* C14: a read whose cache entry is fresh, without --refresh, issues no
\* request at all; a read whose entry is stale or absent issues the book
\* fetch, then (the book existing) the chapter-list fetch, and when it
\* ends normally the entry has been overwritten by a summary carrying the
\* current timestamp.
C14_FreshNoRequestStaleRefetch ==
  (cmd = "read" /\ Terminated) =>
    LET file == cache_before[args.book_id]
    IN  /\ (IsFresh(file, now) /\ ~args.refresh) => calls = << >>
        /\ ~IsFresh(file, now) =>
             /\ calls # << >> /\ calls[1] = FetchBook
             /\ book # JNull => Len(calls) = 2 /\ calls[2] = FetchChapters
             /\ (book # JNull /\ pc = "done") =>
                  /\ cache[args.book_id] =
                       Summary(args.book_id, book, chapters, now)
                  /\ HeaderStamp(cache[args.book_id]) = strftime(now)

\* C15 as stated: after any read command that prints the book summary and
\* exits normally, the Last Read of the book's entry is the time of that
\* read.
C15_LastReadIsTimeOfRead ==
  (cmd = "read" /\ pc = "done") =>
    HeaderStamp(cache[args.book_id]) = strftime(now)

\* C15, amended: a read that refetches the book (entry absent or stale, or
\* --refresh) and exits normally leaves an entry whose Last Read is the
\* time of that read, and so does every cache rebuild of chapter-read; a
\* read served from a fresh entry prints that entry and leaves every cache
\* file as it was.
C15_RefetchStampsCachedKeeps ==
  /\ (cmd = "read" /\ pc = "done") =>
       IF calls = << >>
         THEN /\ cache = cache_before
              /\ out = <<Msg("cached summary", cache[args.book_id])>>
         ELSE /\ cache = [cache_before EXCEPT ![args.book_id] =
                            Summary(args.book_id, book, chapters, now)]
              /\ HeaderStamp(cache[args.book_id]) = strftime(now)
              /\ out = <<Msg("summary", cache[args.book_id])>>
  /\ (cmd = "chapter-read" /\ Len(calls) = 3 /\ chapters # << >>) =>
       HeaderStamp(cache[stale_book]) = strftime(now)

\* A stale entry was replaced by a read that refetched the book.
C15_Witness ==
  /\ cmd = "read" /\ pc = "done" /\ calls = <<FetchBook, FetchChapters>>
  /\ cache_before[args.book_id] # NoFile
  /\ ~args.refresh
  /\ HeaderStamp(cache_before[args.book_id]) = strftime(0)
  /\ HeaderStamp(cache[args.book_id]) = strftime(now)
  /\ now = Week + 1

\* C16: in chapter-read the stale-id resolution (cache scan, cache
\* deletion, refetch) runs only when the service reports "chapter not
\* found"; a server error, a permission error or a transport failure on
\* the chapter lookup never starts it and never deletes a cache entry.
C16_ResolverOnlyOnNotFound ==
  (cmd = "chapter-read" /\ lookup \in {"http500", "http403", "urlerror"}) =>
    /\ pc \notin {"scan", "refetch_book", "refetch_chapters"}
    /\ stale_book = << >>
    /\ cache = cache_before
    /\ calls = <<Call("GET", "/chapters?id&forAgent")>>

\* The books whose cache file, as the command found it, holds the id.
HoldersOf(id) ==
  {b \in BookIds :
     cache_before[b] # NoFile /\ Contains(cache_before[b], id)}

\* title.lower().strip()
Norm(title) == Strip(Lower(title))

\* The cache file holds the chapter line of id under title.
HoldsChapter(file, id, title) ==
  /\ file # NoFile
  /\ \E i \in 1..Len(Split(file, <<"\n">>)) :
       StartsWith(Split(file, <<"\n">>)[i],
                  <<"-"," ","*","*">> \o title
                  \o <<"*","*"," ","(","i","d",":"," ">> \o id \o <<")",":">>)

\* The positions of the refreshed chapters whose title equals title.
Titled(title) ==
  {i \in 1..Len(chapters) : Norm(chapters[i].title) = Norm(title)}

\* C17: resolving the stale id X, when the cache holds X under book B with
\* the title "Intro" and the refreshed chapter list of B has a chapter
\* titled "Intro" (trimmed, lower-cased) with a new id, ends in success
\* with that chapter's id and content.
C17_TitleMatchYieldsNewId ==
  (/\ cmd = "chapter-read" /\ Terminated /\ Len(calls) = 3
   /\ HoldersOf(id_X) = {id_B}
   /\ HoldsChapter(cache_before[id_B], id_X, t_intro)
   /\ Titled(t_intro) # {}) =>
    /\ pc = "done"
    /\ \E i \in Titled(t_intro) :
         /\ args.chapter_id = chapters[i].id
         /\ out = <<Msg("chapter retrieved", chapters[i].content)>>

\* No title hint was recovered.
NoHint == stale_chapter_info = JNull \/ stale_chapter_info.s = << >>

\* C18: when no title hint was recovered, or the refreshed chapter list
\* has no chapter whose trimmed, lower-cased title equals the hint, the
\* resolution ends in failure: the command exits with an error, keeps the
\* identifier it was given and prints no chapter content.
C18_NoMatchFails ==
  (/\ cmd = "chapter-read" /\ Len(calls) = 3
   /\ NoHint \/ Titled(stale_chapter_info.s) = {}) =>
    /\ pc = "exit1"
    /\ args.chapter_id = id_X
    /\ chapter = JNull
    /\ out \in {<<Msg("could not auto-match", << >>)>>,
                <<Msg("book has no chapters", << >>)>>}

\* The cached chapter "Intro" was renamed to "Prologue": the resolution
\* ended with the list of current chapters.
C18_Witness ==
  /\ cmd = "chapter-read" /\ pc = "exit1" /\ Len(calls) = 3
  /\ stale_chapter_info = JStr(t_intro)
  /\ chapters = <<Chapter(id_Y, t_prologue, c_hello)>>
  /\ out = <<Msg("could not auto-match", << >>)>>

\* C19: whenever the resolution ends without a title match after the book
\* was refetched, for every refreshed chapter list (an empty one too), the
\* book's cache entry has been rebuilt from the refreshed book and chapters
\* before the command terminates.
C19_NoMatchRebuilds ==
  (/\ cmd = "chapter-read" /\ pc = "exit1" /\ Len(calls) = 3
   /\ book # JNull) =>
    cache[stale_book] = Summary(stale_book, book, chapters, now)

\* C20: if no cache file holds the stale identifier, the resolution ends
\* in the failure "chapter not found": the command exits with an error,
\* deletes and writes no cache file and issues no further request.
C20_Unrecoverable ==
  (/\ cmd = "chapter-read" /\ lookup \notin {"none", "ok"} /\ pc # "scan"
   /\ HoldersOf(id_X) = {}) =>
    /\ pc = "exit1"
    /\ out = <<Msg("chapter not found", << >>)>>
    /\ stale_book = << >>
    /\ cache = cache_before
    /\ calls = <<Call("GET", "/chapters?id&forAgent")>>

\* The scan went through a cache file that does not hold the identifier.
C20_Witness ==
  /\ cmd = "chapter-read" /\ pc = "exit1" /\ lookup = "http404"
  /\ HoldersOf(id_X) = {}
  /\ \E b \in BookIds : cache_before[b] # NoFile
  /\ out = <<Msg("chapter not found", << >>)>>

\* C21: the resolver's steps are ordered Scan, Invalidate, Refetch,
\* Rematch: the cache file of the matching book is deleted before the
\* book is requested, the chapter list is requested only for a book that
\* was returned, and when the book is not returned the command ends with
\* "no longer exists", that book's cache file absent, no chapter list
\* fetched and no chapter matched.
C21_InvalidateThenRefetch ==
  cmd = "chapter-read" =>
    /\ pc = "refetch_book" =>
         /\ stale_book \in HoldersOf(id_X)
         /\ cache[stale_book] = NoFile
         /\ Len(calls) = 1
    /\ Len(calls) >= 2 =>
         /\ calls[2] = FetchBook
         /\ cache[stale_book] = NoFile \/ Len(calls) = 3
    /\ (Len(calls) = 2 /\ book = JNull) =>
         /\ pc = "exit1"
         /\ out = <<Msg("book no longer exists", << >>)>>
         /\ cache[stale_book] = NoFile
         /\ chapters = << >> /\ chapter = JNull
         /\ args.chapter_id = id_X
    /\ Len(calls) = 3 => calls[3] = FetchChapters /\ book # JNull

\* The book of the stale identifier is gone: the command stopped after
\* the book request, the cache file deleted.
C21_Witness ==
  /\ cmd = "chapter-read" /\ pc = "exit1" /\ lookup = "http404"
  /\ calls = <<Call("GET", "/chapters?id&forAgent"), FetchBook>>
  /\ book = JNull
  /\ cache_before[stale_book] # NoFile /\ cache[stale_book] = NoFile
  /\ out = <<Msg("book no longer exists", << >>)>>

\* C26: once the scan has found a cached book that holds the stale
\* identifier, in every state in which the command has terminated that
\* book's cache file is absent or is the summary built from the refetched
\* book and chapters; the stale content is never left in place.
C26_StaleEntryNeverSurvives ==
  (cmd = "chapter-read" /\ Terminated /\ stale_book # << >>) =>
    /\ \/ cache[stale_book] = NoFile
       \/ /\ book # JNull
          /\ cache[stale_book] = Summary(stale_book, book, chapters, now)
    /\ cache[stale_book] # cache_before[stale_book]
    /\ \A b \in BookIds \ {stale_book} : cache[b] = cache_before[b]

\* A resolution that succeeded left the rebuilt file; the other cache file
\* holds the identifier too and was not touched.
C26_Witness ==
  /\ cmd = "chapter-read" /\ pc = "done" /\ stale_book = id_B
  /\ HoldersOf(id_X) = BookIds
  /\ cache[id_B] = Summary(id_B, book, chapters, now)
  /\ cache[id_C] = cache_before[id_C]

\* The titles under which a cache file of ScanCaches holds a chapter.
CachedTitles == {t_intro, t_outro, t_stars, << >>}

\* C27: the title hint the resolver extracts is the title of the cached
\* chapter line whose id is exactly the stale identifier, also when
\* another chapter line of the same file holds the identifier as a
\* substring (in a longer id or in its preview) and when the cached title
\* holds "**"; a resolution that succeeds returns a chapter whose trimmed,
\* lower-cased title is that of the cached line of the stale identifier.
C27_HintIsTitleOfExactLine ==
  (/\ cmd = "chapter-read" /\ stale_book # << >>
   /\ pc \notin {"lookup", "scan"}) =>
    \A t \in CachedTitles :
      HoldsChapter(cache_before[stale_book], id_X, t) =>
        /\ stale_chapter_info = JStr(t)
        /\ pc = "done" =>
             \E i \in Titled(t) :
               /\ args.chapter_id = chapters[i].id
               /\ out = <<Msg("chapter retrieved", chapters[i].content)>>

\* C28: freshness in read is decided by the header's Last Read alone: a
\* read without --refresh of an entry whose header timestamp is 7 or more
\* days old is not served from the cache but goes on to the book fetch,
\* whatever the lines after the header hold.
C28_OldHeaderIsRefetched ==
  (/\ cmd = "read" /\ pc # "cache" /\ ~args.refresh
   /\ Usable(cache_before[args.book_id])
   /\ now - HeaderTime(cache_before[args.book_id]).t
        >= FreshDays * SecondsPerDay) =>
    /\ calls # << >> \/ pc = "fetch_book"
    /\ calls # << >> => calls[1] = FetchBook
    /\ out # <<Msg("cached summary", cache_before[args.book_id])>>

\* The lines of a cache file after its "## Chapters" heading.
ChapterBlock(file) ==
  LET p == Split(file, <<"\n","#","#"," ","C","h","a","p","t","e","r","s">>)
  IN  Tail(Split(p[Len(p)], <<"\n">>))

\* The length of "- **{title}** (id: {id}): ", the part of a chapter line
\* before the preview.
LineHead(ch) == 4 + Len(ch.title) + 8 + Len(ch.id) + 3

\* C24: every chapter preview written to a cache file, by read or by a
\* rebuild, is at most 200 characters long and holds no newline: the file
\* written has one line per chapter after the heading, and on each the
\* text after "- **title** (id: id): " has at most 200 characters.
C24_PreviewAtMost200 ==
  \A b \in BookIds :
    (cache[b] # NoFile /\ cache[b] # cache_before[b]) =>
      LET block == ChapterBlock(cache[b])
      IN  /\ Len(block) = Len(chapters)
          /\ \A i \in 1..Len(chapters) :
               /\ Len(block[i]) - LineHead(chapters[i]) <= PreviewLen
               /\ Len(block[i]) - LineHead(chapters[i])
                    = Len(Preview(chapters[i].content))

\* The segment is an object whose type is missing or is none of the ten
\* known kinds.
BadType(sg) == sg.k = "dict" /\ KindOf(sg) \notin VALID_SEGMENT_TYPES

\* C25: a segment whose type is missing or is not one of the ten known
\* kinds contributes exactly one violation, the missing-type one or the
\* unknown-type one that names the known kinds, and none of the later
\* per-segment rules, whatever text and narrative it carries.
C25_BadTypeOneViolation ==
  (Validated /\ doc.k = "dict" /\ Get(doc.segments).k = "list") =>
    \A i \in 1..Len(doc.items) :
      BadType(doc.items[i]) =>
        /\ Cardinality(ViolationsOf(i - 1)) = 1
        /\ \A n \in ViolationsOf(i - 1) :
             IF Get(doc.items[i].type) = JNull
               THEN errors[n].code = "type_missing"
               ELSE /\ errors[n].code = "type_unknown"
                    /\ errors[n].names = VALID_SEGMENT_TYPES

\* The positions in calls of the requests POST path.
Posts(path) == {i \in 1..Len(calls) : calls[i] = Call("POST", path)}

\* C23: chapter-add routes by the rights check.  Without either right the
\* command has exited after the rights request, which stays its only
\* request; POST /chapters is sent only with canPublishDirectly, POST
\* /chapter-contributions only without it and with canContribute; at most
\* one of the two is sent, and only after the rights request.
C23_RoutedByRights ==
  cmd = "chapter-add" =>
    /\ (~can_publish /\ ~can_contribute /\ pc # "check_rights") =>
         /\ Len(calls) <= 1
         /\ calls # << >> => pc = "exit1"
    /\ Posts("/chapters") # {} => can_publish
    /\ Posts("/chapter-contributions") # {} =>
         ~can_publish /\ can_contribute
    /\ Cardinality(Posts("/chapters") \cup Posts("/chapter-contributions"))
         <= 1
    /\ \A i \in Posts("/chapters") \cup Posts("/chapter-contributions") :
         i > 1 /\ calls[1] = Call("GET", "/chapters/check-rights")

\* A chapter was published directly by an agent that has both rights.
C23_Witness ==
  /\ cmd = "chapter-add" /\ pc = "done"
  /\ can_publish /\ can_contribute
  /\ Posts("/chapters") # {} /\ Posts("/chapter-contributions") = {}

\* C29: the orderIndex sent with a directly published chapter is 0 when
\* the book has no chapters, and otherwise is greater than every orderIndex
\* of the existing chapters and at least their number.
C29_OrderIndexAboveExisting ==
  (cmd = "chapter-add" /\ pc \in {"fetch_last", "route", "done"}) =>
    IF existing = << >> THEN order_index = 0
    ELSE /\ \A i \in 1..Len(existing) : order_index > existing[i]
         /\ order_index >= Len(existing)

\* A chapter was published after two chapters that share the orderIndex 2.
C29_Witness ==
  /\ cmd = "chapter-add" /\ pc = "done" /\ Posts("/chapters") # {}
  /\ existing = <<MaxOrder, MaxOrder>>
  /\ order_index = MaxOrder + 1

\* The _api call has ended: it returned, exited or raised.
ApiEnded == pc \in {"returned", "exit1", "crashed"}

\* The response is a 500/502/503/504 or a transport failure.
Transient(r) ==
  \/ r.kind = "URLError"
  \/ r.kind = "HTTPError" /\ r.code \in {500, 502, 503, 504}

\* C22: an _api call makes at most 1 + retries requests (2 with the
\* default retries); every request but the last ended in a 500/502/503/504
\* or a transport failure, so no success and no other status is followed
\* by another request; a call that is not ended has requests left, and the
\* call whose last allowed request has been answered is ended.
C22_BoundedRetries ==
  cmd = "_api" =>
    /\ Len(responses) <= 1 + retries
    /\ retries = DefaultRetries => Len(responses) <= 2
    /\ \A i \in 1..(Len(responses) - 1) : Transient(responses[i])
    /\ (Len(responses) > 0 /\ ~Transient(responses[Len(responses)])) =>
         ApiEnded
    /\ Len(responses) = 1 + retries => ApiEnded
    /\ ~ApiEnded => ENABLED NextApi
    /\ attempt = (IF pc = "sleep" THEN Len(responses) - 1
                   ELSE IF ApiEnded THEN Len(responses) - 1
                   ELSE Len(responses))

\* A call with retries = 2 that received 503, a transport failure and 500
\* has exited after its third request.
C22_Witness ==
  /\ cmd = "_api" /\ pc = "exit1" /\ retries = MaxRetries /\ ~quiet
  /\ Len(responses) = 1 + retries
  /\ responses[1] = Resp("HTTPError", 503)
  /\ responses[2] = Resp("URLError", 0)
  /\ responses[Len(responses)] = Resp("HTTPError", 500)

\* The version text is three runs of digits joined by dots.
WellFormed(v) ==
  LET p == Split(v, <<".">>)
  IN  Len(p) = 3 /\ \A i \in 1..3 : ~IntRaises(p[i])

\* For well-formed versions: a is not greater than b, number by number.
NotGreater(a, b) ==
  LET x == [i \in 1..3 |-> Number(Split(a, <<".">>)[i])]
      y == [i \in 1..3 |-> Number(Split(b, <<".">>)[i])]
  IN  \/ x[1] < y[1]
      \/ x[1] = y[1] /\ x[2] < y[2]
      \/ x[1] = y[1] /\ x[2] = y[2] /\ x[3] <= y[3]

\* C30: the update is all-or-nothing for the files that existed before it
\* ran: when a download has failed after the backups were taken, the
\* command has exited with failure and every file of the update set that
\* existed beforehand has its content of before, whichever file failed;
\* and when the remote version is not greater than the local version (as
\* the command compares them, and number by number for versions of the
\* form X.Y.Z) no file is modified.
C30_AllOrNothing ==
  cmd = "update" =>
    /\ (pc = "exit1" /\ out = <<Msg("rollback", << >>)>>) =>
         \A f \in FileNames :
           disk_before[f] # Missing => disk[f] = disk_before[f]
    /\ (pc \in {"download", "clean", "done", "exit1"} /\ backups # {}) =>
         \A f \in backups : bak[f] = disk_before[f] \/ pc = "done"
    /\ (pc \notin {"local_version", "remote_version", "compare"}
        /\ remote_v # << >>
        /\ \/ TupleLeq(_version_tuple(remote_v), _version_tuple(local_v))
           \/ /\ WellFormed(remote_v) /\ WellFormed(local_v)
              /\ NotGreater(remote_v, local_v)) =>
         /\ pc = "done"
         /\ disk = disk_before
         /\ \A f \in FileNames : bak[f] = Missing

\* The download of the last file, skills.json, failed after the four
\* files before it were written: they are back to their content of before.
C30_Witness ==
  /\ cmd = "update" /\ pc = "exit1" /\ updated = Len(UpdateFiles) - 1
  /\ out = <<Msg("rollback", << >>)>>
  /\ \A f \in FileNames : disk_before[f] # Missing
  /\ disk = disk_before
  /\ local_v = v_1_9_0 /\ remote_v = v_1_10_0

====
